---- MODULE Spec2Model ----
(***************************************************************************)
(* A model of statelint's expression resolution engine:                    *)
(*   src/resolver/expression-resolver.ts  resolveExpression, stringifyExpr   *)
(*   src/resolver/symbol-table.ts         buildSymbolTable                   *)
(*   src/resolver/import-resolver.ts      resolveImport, the import cache    *)
(* JavaScript strings are TLA+ strings (\o concatenates them), a Map is the  *)
(* sequence of its entries in insertion order, an AST node is a record with  *)
(* a type field, and the value undefined is the record named undefined.      *)
(* A TypeError raised by reading a property of undefined is the value        *)
(* TypeError, which every caller passes on as an uncaught exception does.    *)
(***************************************************************************)
EXTENDS Naturals, Sequences, FiniteSets, TLC

VARIABLES
    expr,        \* the node handed to resolveExpression
    symbols,     \* the SymbolTable handed to resolveExpression
    result,      \* what the call returned (or TypeError), NoResult before it
    pc,          \* "ready" before the call, "done" after it
    files,       \* what the FileReader sees: path -> content
    importCache, \* the module-level Map<string, SymbolTable> of the import resolver
    lastCall,    \* the latest resolveImport call: arguments, path, effects, answer
    builds,      \* path -> runs of buildSymbolTableFn since the cache was cleared
    lastBuild,   \* the latest buildSymbolTable call: arguments, table, effects
    jsxResults,  \* Map<string, JsxParseResult> handed to analyze
    cssResults,  \* Map<string, CssParseResult> handed to analyze
    audit,       \* the options analyze ran with and the AuditResult it returned
    parsing      \* parseFile call -> how far it is, the file it parses, what it got

resolverVars == <<expr, symbols, result, pc>>

importVars == <<files, importCache, lastCall, builds, lastBuild>>

analyzerVars == <<jsxResults, cssResults, audit>>

vars ==
    <<expr, symbols, result, pc, files, importCache, lastCall, builds, lastBuild,
      jsxResults, cssResults, audit, parsing>>

----------------------------------------------------------------------------
(* JavaScript values *)

undefined == [undefined |-> TRUE]

TypeError == [threw |-> "TypeError"]

NoResult == [none |-> TRUE]

(* Map<string, V>: entries in insertion order, keys unique *)
MapHas(m, k) == \E i \in DOMAIN m : m[i].key = k

MapGet(m, k) ==
    IF MapHas(m, k)
    THEN m[CHOOSE i \in DOMAIN m : m[i].key = k].value
    ELSE undefined

(* mutant: a key that is present keeps its first value *)
MapSetKeepingFirst(m, k, v) ==
    IF MapHas(m, k) THEN m ELSE Append(m, [key |-> k, value |-> v])

MapSet(m, k, v) ==
    IF MapHas(m, k)
    THEN [i \in DOMAIN m |-> IF m[i].key = k THEN [key |-> k, value |-> v] ELSE m[i]]
    ELSE Append(m, [key |-> k, value |-> v])

(* F applied to the value of v, v evaluated once *)
Bind(v, F(_)) == CHOOSE r \in {F(x) : x \in {v}} : TRUE

(* Array.prototype.join *)
RECURSIVE Join(_, _)
Join(strs, sep) ==
    IF Len(strs) = 0 THEN ""
    ELSE IF Len(strs) = 1 THEN strs[1]
    ELSE strs[1] \o sep \o Join(Tail(strs), sep)

(* Array.prototype.filter(Boolean) on strings: the empty string is falsy *)
FilterBoolean(strs) == SelectSeq(strs, LAMBDA s : s # "")

----------------------------------------------------------------------------
(* ResolvedValue, types.ts *)

StringValue(v) == [type |-> "string", value |-> v]

ObjectValue(props) == [type |-> "object", properties |-> props]

UnresolvedValue == [type |-> "unresolved"]

(* ResolutionResult, types.ts *)
Resolution(text, full, parts) ==
    [resolvedValue |-> text, isFullyResolved |-> full, unresolvedParts |-> parts]

----------------------------------------------------------------------------
(* AST nodes as @babel/parser builds them *)

StringLiteral(v) == [type |-> "StringLiteral", value |-> v]

Identifier(n) == [type |-> "Identifier", name |-> n]

MemberExpression(o, p, c) ==
    [type |-> "MemberExpression", object |-> o, property |-> p, computed |-> c]

ConditionalExpression(t, c, a) ==
    [type |-> "ConditionalExpression", test |-> t, consequent |-> c, alternate |-> a]

TemplateElement(raw) == [type |-> "TemplateElement", value |-> [raw |-> raw]]

TemplateLiteral(q, e) ==
    [type |-> "TemplateLiteral", quasis |-> q, expressions |-> e]

CallExpression(callee, args) ==
    [type |-> "CallExpression", callee |-> callee, arguments |-> args]

OtherNode(t) == [type |-> t]

----------------------------------------------------------------------------
(* expression-resolver.ts *)

STRING_PASSTHROUGH_METHODS ==
    {"trim", "trimStart", "trimEnd", "trimLeft", "trimRight",
     "replace", "replaceAll", "normalize", "toLowerCase", "toUpperCase"}

(* stringifyExpr raises when it reads .type of an undefined node or .name  *)
(* of an undefined property; stringifyThrows says when, stringifyExpr gives *)
(* the string it returns otherwise.                                         *)
RECURSIVE stringifyThrows(_)
stringifyThrows(node) ==
    IF node = undefined THEN TRUE
    ELSE IF node.type = "Identifier" THEN FALSE
    ELSE IF node.type = "MemberExpression"
    THEN \/ stringifyThrows(node.object)
         \/ IF node.computed
            THEN stringifyThrows(node.property)
            ELSE node.property = undefined
    ELSE FALSE

(* mutant: a computed step is rendered like a static one *)
RECURSIVE stringifyExprDotted(_)
stringifyExprDotted(node) ==
    IF node.type = "Identifier" THEN node.name
    ELSE IF node.type = "MemberExpression"
    THEN stringifyExprDotted(node.object) \o "."
         \o (IF node.computed THEN stringifyExprDotted(node.property)
             ELSE node.property.name)
    ELSE IF node.type = "StringLiteral" THEN "\"" \o node.value \o "\""
    ELSE "<expr>"

(* mutant: the placeholder names the kind of node *)
RECURSIVE stringifyExprNamingType(_)
stringifyExprNamingType(node) ==
    IF node.type = "Identifier" THEN node.name
    ELSE IF node.type = "MemberExpression"
    THEN LET obj == stringifyExprNamingType(node.object)
             prop == IF node.computed
                     THEN "[" \o stringifyExprNamingType(node.property) \o "]"
                     ELSE "." \o node.property.name
         IN obj \o prop
    ELSE IF node.type = "StringLiteral" THEN "\"" \o node.value \o "\""
    ELSE "<" \o node.type \o ">"

RECURSIVE stringifyExpr(_)
stringifyExpr(node) ==
    IF node.type = "Identifier" THEN node.name
    ELSE IF node.type = "MemberExpression"
    THEN LET obj == stringifyExpr(node.object)
             prop == IF node.computed
                     THEN "[" \o stringifyExpr(node.property) \o "]"
                     ELSE "." \o node.property.name
         IN obj \o prop
    ELSE IF node.type = "StringLiteral" THEN "\"" \o node.value \o "\""
    ELSE "<expr>"

(* mutant: the unresolved result forgets its fragment *)
unresolvedResultNoParts(node) ==
    IF stringifyThrows(node) THEN TypeError
    ELSE Resolution("", FALSE, <<>>)

(* mutant: an unhandled node is reported as resolved to the empty text *)
unresolvedResultAsResolved(node) ==
    IF stringifyThrows(node) THEN TypeError
    ELSE Resolution("", TRUE, <<>>)

(* return { resolvedValue: "", isFullyResolved: false,                      *)
(*          unresolvedParts: [stringifyExpr(expr)] }                         *)
unresolvedResult(node) ==
    IF stringifyThrows(node) THEN TypeError
    ELSE Resolution("", FALSE, <<stringifyExpr(node)>>)

(* mutant: nested objects are not descended into *)
collectAllStringsShallow(value, acc) ==
    IF value.type = "string" /\ value.value # ""
    THEN Append(acc, value.value)
    ELSE acc

RECURSIVE collectAllStrings(_, _)
RECURSIVE collectProperties(_, _, _)
collectAllStrings(value, acc) ==
    IF value.type = "string" /\ value.value # ""
    THEN Append(acc, value.value)
    ELSE IF value.type = "object"
    THEN collectProperties(value.properties, 1, acc)
    ELSE acc

(* for (const [, v] of value.properties) collectAllStrings(v, result) *)
collectProperties(props, i, acc) ==
    IF i > Len(props) THEN acc
    ELSE collectProperties(props, i + 1, collectAllStrings(props[i].value, acc))

(* the loop of resolveMemberExpression over current.properties *)
RECURSIVE unionAllValues(_, _, _)
unionAllValues(props, i, allValues) ==
    IF i > Len(props) THEN allValues
    ELSE LET value == props[i].value
         IN unionAllValues(props, i + 1,
                IF value.type = "string" /\ value.value # ""
                THEN Append(allValues, value.value)
                ELSE IF value.type = "object"
                THEN collectAllStrings(value, allValues)
                ELSE allValues)

RECURSIVE resolveMemberExpressionToValue(_, _)
resolveMemberExpressionToValue(node, table) ==
    LET object == node.object
        property == node.property
    IN IF object = undefined THEN TypeError
       ELSE LET current ==
                    IF object.type = "Identifier" THEN MapGet(table, object.name)
                    ELSE IF object.type = "MemberExpression"
                    THEN resolveMemberExpressionToValue(object, table)
                    ELSE undefined
            IN IF current = TypeError THEN TypeError
               ELSE IF current = undefined \/ current.type # "object" THEN undefined
               ELSE IF property = undefined THEN TypeError
               ELSE IF property.type = "Identifier"
               THEN MapGet(current.properties, property.name)
               ELSE undefined

(* mutant: an Object leaf of a static access is flattened like a computed one *)
resolveMemberFromObjectLeaf(node, current) ==
    LET property == node.property
    IN IF current = undefined \/ current.type = "unresolved"
       THEN unresolvedResult(node)
       ELSE IF property = undefined THEN TypeError
       ELSE IF property.type = "Identifier" /\ current.type = "object"
       THEN LET propValue == MapGet(current.properties, property.name)
            IN IF propValue # undefined /\ propValue.type = "string"
               THEN Resolution(propValue.value, TRUE, <<>>)
               ELSE IF propValue # undefined /\ propValue.type = "object"
               THEN Resolution(Join(unionAllValues(propValue.properties, 1, <<>>), " "),
                               TRUE, <<>>)
               ELSE unresolvedResult(node)
       ELSE unresolvedResult(node)

(* resolveMemberExpression from "if (!current || ...)" on, current known *)
resolveMemberFrom(node, current) ==
    LET property == node.property
        isComputed == node.computed
    IN IF current = undefined \/ current.type = "unresolved"
       THEN unresolvedResult(node)
       ELSE IF isComputed /\ current.type = "object"
       THEN Resolution(Join(unionAllValues(current.properties, 1, <<>>), " "),
                       TRUE, <<>>)
       ELSE IF property = undefined THEN TypeError
       ELSE IF property.type = "Identifier" /\ current.type = "object"
       THEN LET propValue == MapGet(current.properties, property.name)
            IN IF propValue # undefined /\ propValue.type = "string"
               THEN Resolution(propValue.value, TRUE, <<>>)
               ELSE unresolvedResult(node)
       ELSE unresolvedResult(node)

resolveMemberExpression(node, table) ==
    LET object == node.object
    IN IF object = undefined THEN TypeError
       ELSE IF object.type = "Identifier"
       THEN resolveMemberFrom(node, MapGet(table, object.name))
       ELSE IF object.type = "MemberExpression"
       THEN LET nestedResult == resolveMemberExpressionToValue(object, table)
            IN IF nestedResult = TypeError THEN TypeError
               ELSE IF nestedResult # undefined
               THEN resolveMemberFrom(node, nestedResult)
               ELSE unresolvedResult(node)
       ELSE unresolvedResult(node)

RECURSIVE resolveExpression(_, _)
RECURSIVE resolveTemplateLoop(_, _, _, _, _, _)
RECURSIVE resolveCallExpression(_, _)

(* the for loop of resolveTemplateLiteral from index i (1-based) on *)
resolveTemplateLoop(node, table, i, parts, unresolvedParts, allResolved) ==
    IF i > Len(node.quasis)
    THEN Resolution(Join(parts, ""), allResolved, unresolvedParts)
    ELSE LET parts1 == Append(parts, node.quasis[i].value.raw)
         IN IF i <= Len(node.expressions)
            THEN LET exprResult == resolveExpression(node.expressions[i], table)
                 IN IF exprResult = TypeError THEN TypeError
                    ELSE resolveTemplateLoop(node, table, i + 1,
                            Append(parts1, exprResult.resolvedValue),
                            IF exprResult.isFullyResolved THEN unresolvedParts
                            ELSE unresolvedParts \o exprResult.unresolvedParts,
                            allResolved /\ exprResult.isFullyResolved)
            ELSE resolveTemplateLoop(node, table, i + 1, parts1,
                                     unresolvedParts, allResolved)

(* mutant: the text of an embedded expression is kept only when it resolved *)
RECURSIVE resolveTemplateLoopResolvedOnly(_, _, _, _, _, _)
resolveTemplateLoopResolvedOnly(node, table, i, parts, unresolvedParts, allResolved) ==
    IF i > Len(node.quasis)
    THEN Resolution(Join(parts, ""), allResolved, unresolvedParts)
    ELSE LET parts1 == Append(parts, node.quasis[i].value.raw)
         IN IF i <= Len(node.expressions)
            THEN LET exprResult == resolveExpression(node.expressions[i], table)
                 IN IF exprResult = TypeError THEN TypeError
                    ELSE resolveTemplateLoopResolvedOnly(node, table, i + 1,
                            IF exprResult.isFullyResolved
                            THEN Append(parts1, exprResult.resolvedValue)
                            ELSE parts1,
                            IF exprResult.isFullyResolved THEN unresolvedParts
                            ELSE unresolvedParts \o exprResult.unresolvedParts,
                            allResolved /\ exprResult.isFullyResolved)
            ELSE resolveTemplateLoopResolvedOnly(node, table, i + 1, parts1,
                                                 unresolvedParts, allResolved)

resolveTemplateLiteralResolvedOnly(node, table) ==
    resolveTemplateLoopResolvedOnly(node, table, 1, <<>>, <<>>, TRUE)

resolveTemplateLiteral(node, table) ==
    resolveTemplateLoop(node, table, 1, <<>>, <<>>, TRUE)

isPassthroughCallee(callee) ==
    /\ callee.type = "MemberExpression"
    /\ callee.property.type = "Identifier"
    /\ callee.property.name \in STRING_PASSTHROUGH_METHODS

resolveCallExpression(node, table) ==
    LET callee == node.callee
    IN IF callee = undefined THEN TypeError
       ELSE IF callee.type = "MemberExpression" /\ callee.property = undefined
       THEN TypeError
       ELSE IF isPassthroughCallee(callee)
       THEN resolveExpression(callee.object, table)
       ELSE unresolvedResult(node)

(* mutant: any bound name counts as resolved *)
resolveIdentifierAnyBinding(node, table) ==
    LET name == node.name
        resolved == MapGet(table, name)
    IN IF resolved # undefined
       THEN Resolution(IF resolved.type = "string" THEN resolved.value ELSE "",
                       TRUE, <<>>)
       ELSE Resolution("", FALSE, <<name>>)

(* the Identifier case of resolveExpression *)
resolveIdentifier(node, table) ==
    LET name == node.name
        resolved == MapGet(table, name)
    IN IF resolved # undefined /\ resolved.type = "string"
       THEN Resolution(resolved.value, TRUE, <<>>)
       ELSE Resolution("", FALSE, <<name>>)

(* mutant: the empty branch texts are not filtered out before joining *)
unionBranchesNoFilter(consequent, alternate) ==
    Resolution(Join(<<consequent.resolvedValue, alternate.resolvedValue>>, " "),
               consequent.isFullyResolved /\ alternate.isFullyResolved,
               consequent.unresolvedParts \o alternate.unresolvedParts)

(* the ConditionalExpression case of resolveExpression, both branches resolved *)
unionBranches(consequent, alternate) ==
    LET combinedValue ==
            Join(FilterBoolean(<<consequent.resolvedValue,
                                 alternate.resolvedValue>>), " ")
    IN Resolution(combinedValue,
                  consequent.isFullyResolved /\ alternate.isFullyResolved,
                  consequent.unresolvedParts \o alternate.unresolvedParts)

(* the imports parameter of the source is passed along and never read *)
resolveExpression(node, table) ==
    IF node = undefined THEN TypeError
    ELSE IF node.type = "StringLiteral"
    THEN Resolution(node.value, TRUE, <<>>)
    ELSE IF node.type = "Identifier"
    THEN resolveIdentifier(node, table)
    ELSE IF node.type = "MemberExpression"
    THEN resolveMemberExpression(node, table)
    ELSE IF node.type = "ConditionalExpression"
    THEN LET consequent == resolveExpression(node.consequent, table)
             alternate == resolveExpression(node.alternate, table)
         IN IF consequent = TypeError \/ alternate = TypeError THEN TypeError
            ELSE unionBranches(consequent, alternate)
    ELSE IF node.type = "TemplateLiteral"
    THEN resolveTemplateLiteral(node, table)
    ELSE IF node.type = "CallExpression"
    THEN resolveCallExpression(node, table)
    ELSE unresolvedResult(node)

----------------------------------------------------------------------------
(* AST nodes of a file; a module specifier and a file path are the sequence *)
(* of their "/"-separated segments                                          *)

null == [null |-> TRUE]

Falsy(x) == x = undefined \/ x = null

File(body) == [type |-> "File", program |-> [type |-> "Program", body |-> body]]

ImportDeclaration(specifiers, sourcePath) ==
    [type |-> "ImportDeclaration", specifiers |-> specifiers,
     source |-> StringLiteral(sourcePath)]

ImportSpecifier(imported, local) ==
    [type |-> "ImportSpecifier", imported |-> Identifier(imported),
     local |-> Identifier(local)]

ImportDefaultSpecifier(local) ==
    [type |-> "ImportDefaultSpecifier", local |-> Identifier(local)]

ImportNamespaceSpecifier(local) ==
    [type |-> "ImportNamespaceSpecifier", local |-> Identifier(local)]

VariableDeclarator(id, init) ==
    [type |-> "VariableDeclarator", id |-> id, init |-> init]

VariableDeclaration(declarations) ==
    [type |-> "VariableDeclaration", declarations |-> declarations]

ExportNamedDeclaration(declaration) ==
    [type |-> "ExportNamedDeclaration", declaration |-> declaration]

ExportDefaultDeclaration(declaration) ==
    [type |-> "ExportDefaultDeclaration", declaration |-> declaration]

BlockStatement(body) == [type |-> "BlockStatement", body |-> body]

FunctionDeclaration(name, body) ==
    [type |-> "FunctionDeclaration", id |-> Identifier(name), params |-> <<>>,
     body |-> BlockStatement(body)]

ArrowFunctionExpression(body) ==
    [type |-> "ArrowFunctionExpression", params |-> <<>>, body |-> body]

ObjectProperty(key, value, computed) ==
    [type |-> "ObjectProperty", key |-> key, value |-> value, computed |-> computed]

ObjectExpression(properties) ==
    [type |-> "ObjectExpression", properties |-> properties]

TSAsExpression(expression) ==
    [type |-> "TSAsExpression", expression |-> expression]

(* Object.keys(node) restricted to the values visit descends into: the     *)
(* child nodes, arrays flattened in place, in the order the parser sets them *)
Children(node) ==
    LET kids ==
          CASE node.type = "File" -> <<node.program>>
            [] node.type \in {"Program", "BlockStatement"} -> node.body
            [] node.type = "ImportDeclaration" -> node.specifiers \o <<node.source>>
            [] node.type = "VariableDeclaration" -> node.declarations
            [] node.type = "ImportSpecifier" -> <<node.imported, node.local>>
            [] node.type \in {"ImportDefaultSpecifier", "ImportNamespaceSpecifier"} ->
                    <<node.local>>
            [] node.type = "VariableDeclarator" -> <<node.id, node.init>>
            [] node.type \in {"ExportNamedDeclaration", "ExportDefaultDeclaration"} ->
                    <<node.declaration>>
            [] node.type = "FunctionDeclaration" ->
                    <<node.id>> \o node.params \o <<node.body>>
            [] node.type = "ArrowFunctionExpression" -> node.params \o <<node.body>>
            [] node.type = "ObjectExpression" -> node.properties
            [] node.type = "ObjectProperty" -> <<node.key, node.value>>
            [] node.type = "TSAsExpression" -> <<node.expression>>
            [] node.type = "TSSatisfiesExpression" -> <<node.expression>>
            [] node.type = "TemplateLiteral" -> node.expressions \o node.quasis
            [] node.type = "MemberExpression" -> <<node.object, node.property>>
            [] node.type = "ConditionalExpression" ->
                    <<node.test, node.consequent, node.alternate>>
            [] node.type = "CallExpression" -> <<node.callee>> \o node.arguments
            [] OTHER -> <<>>
    IN SelectSeq(kids, LAMBDA child : ~Falsy(child))

----------------------------------------------------------------------------
(* symbol-table.ts *)

(* the raw texts of the quasis, joined *)
RECURSIVE joinQuasis(_, _)
joinQuasis(quasis, i) ==
    IF i > Len(quasis) THEN ""
    ELSE quasis[i].value.raw \o joinQuasis(quasis, i + 1)

(* mutant: the template loop keeps the text it could resolve *)
RECURSIVE extractTemplateLoopPartial(_, _, _, _, _)
extractTemplateLoopPartial(init, table, i, parts, allResolved) ==
    IF i > Len(init.quasis) THEN StringValue(Join(parts, ""))
    ELSE LET parts1 == Append(parts, init.quasis[i].value.raw)
         IN IF i <= Len(init.expressions)
            THEN LET exprResult == resolveExpression(init.expressions[i], table)
                 IN IF exprResult = TypeError THEN TypeError
                    ELSE extractTemplateLoopPartial(init, table, i + 1,
                            Append(parts1, exprResult.resolvedValue), allResolved)
            ELSE extractTemplateLoopPartial(init, table, i + 1, parts1, allResolved)

(* the all-or-nothing template loop of extractValue from index i on *)
RECURSIVE extractTemplateLoop(_, _, _, _, _)
extractTemplateLoop(init, table, i, parts, allResolved) ==
    IF i > Len(init.quasis)
    THEN IF allResolved THEN StringValue(Join(parts, "")) ELSE UnresolvedValue
    ELSE LET parts1 == Append(parts, init.quasis[i].value.raw)
         IN IF i <= Len(init.expressions)
            THEN LET exprResult == resolveExpression(init.expressions[i], table)
                 IN IF exprResult = TypeError THEN TypeError
                    ELSE IF exprResult.isFullyResolved
                    THEN extractTemplateLoop(init, table, i + 1,
                            Append(parts1, exprResult.resolvedValue), allResolved)
                    ELSE extractTemplateLoop(init, table, i + 1, parts1, FALSE)
            ELSE extractTemplateLoop(init, table, i + 1, parts1, allResolved)

RECURSIVE extractValue(_, _)
RECURSIVE extractProperties(_, _, _, _)
extractValue(init, table) ==
    IF init.type \in {"TSAsExpression", "TSSatisfiesExpression"}
    THEN extractValue(init.expression, table)
    ELSE IF init.type = "StringLiteral" THEN StringValue(init.value)
    ELSE IF init.type = "TemplateLiteral"
    THEN IF Len(init.expressions) = 0
         THEN StringValue(joinQuasis(init.quasis, 1))
         ELSE extractTemplateLoop(init, table, 1, <<>>, TRUE)
    ELSE IF init.type = "ObjectExpression"
    THEN extractProperties(init.properties, 1, <<>>, table)
    ELSE UnresolvedValue

(* for (const prop of props): a key that is an Identifier or a StringLiteral *)
(* names the entry, whether or not the property is computed                  *)
extractProperties(props, i, properties, table) ==
    IF i > Len(props) THEN ObjectValue(properties)
    ELSE LET prop == props[i]
             keyName == IF prop.type # "ObjectProperty" THEN ""
                        ELSE IF prop.key.type = "Identifier" THEN prop.key.name
                        ELSE IF prop.key.type = "StringLiteral" THEN prop.key.value
                        ELSE ""
         IN IF keyName = ""
            THEN extractProperties(props, i + 1, properties, table)
            ELSE LET value == extractValue(prop.value, table)
                 IN IF value = TypeError THEN TypeError
                    ELSE extractProperties(props, i + 1,
                            MapSet(properties, keyName, value), table)

(* for (const decl of declarations) ... symbols.set(name, extractValue(init)) *)
(* st holds symbols and pendingImports                                        *)
RECURSIVE declareAll(_, _, _)
declareAll(declarations, i, st) ==
    IF i > Len(declarations) THEN st
    ELSE LET decl == declarations[i]
         IN IF /\ decl.type = "VariableDeclarator"
               /\ ~Falsy(decl.id)
               /\ decl.id.type = "Identifier"
               /\ ~Falsy(decl.init)
            THEN Bind(extractValue(decl.init, st.symbols),
                      LAMBDA value :
                        IF value = TypeError THEN TypeError
                        ELSE Bind([st EXCEPT !.symbols = MapSet(@, decl.id.name, value)],
                                  LAMBDA st1 : declareAll(declarations, i + 1, st1)))
            ELSE declareAll(declarations, i + 1, st)

(* for (const spec of specifiers) ... pendingImports.push(...) *)
RECURSIVE queueImports(_, _, _, _)
queueImports(specifiers, sourcePath, i, pending) ==
    IF i > Len(specifiers) THEN pending
    ELSE LET spec == specifiers[i]
             localName == IF Falsy(spec.local) THEN "" ELSE spec.local.name
             entry(importedName) ==
                 [localName |-> localName, importedName |-> importedName,
                  sourcePath |-> sourcePath]
         IN queueImports(specifiers, sourcePath, i + 1,
                IF localName = "" THEN pending
                ELSE IF spec.type = "ImportSpecifier"
                THEN Append(pending,
                        entry(IF Falsy(spec.imported) \/ spec.imported.type # "Identifier"
                                 \/ spec.imported.name = ""
                              THEN localName ELSE spec.imported.name))
                ELSE IF spec.type = "ImportDefaultSpecifier"
                THEN Append(pending, entry("default"))
                ELSE IF spec.type = "ImportNamespaceSpecifier"
                THEN Append(pending, entry("*"))
                ELSE pending)

(* a field the node does not have reads as undefined *)
Has(node, field) == field \in DOMAIN node

(* visit: st holds symbols and pendingImports, or is TypeError once raised. *)
(* The source of an import declaration is taken to be present.              *)
RECURSIVE visit(_, _)
RECURSIVE visitAll(_, _, _)
visit(node, st) ==
    IF st = TypeError THEN TypeError
    ELSE IF node.type = "ImportDeclaration" /\ ~Has(node, "specifiers")
    THEN TypeError
    ELSE IF node.type = "VariableDeclaration" /\ ~Has(node, "declarations")
    THEN TypeError
    ELSE LET st1 ==
                 IF node.type = "ImportDeclaration"
                 THEN [st EXCEPT !.pendingImports =
                          queueImports(node.specifiers, node.source.value, 1, @)]
                 ELSE st
             st2 ==
                 IF node.type = "VariableDeclaration"
                 THEN declareAll(node.declarations, 1, st1)
                 ELSE st1
             exported(st3) ==
                 IF /\ st3 # TypeError
                    /\ node.type = "ExportNamedDeclaration"
                    /\ ~Falsy(node.declaration)
                    /\ node.declaration.type = "VariableDeclaration"
                 THEN declareAll(node.declaration.declarations, 1, st3)
                 ELSE st3
         IN Bind(Bind(st2, exported),
                 LAMBDA st4 : IF st4 = TypeError THEN TypeError
                              ELSE Bind(Children(node),
                                        LAMBDA children : visitAll(children, 1, st4)))

(* Recurse into child nodes *)
visitAll(children, i, st) ==
    IF i > Len(children) \/ st = TypeError THEN st
    ELSE Bind(visit(children[i], st), LAMBDA st1 : visitAll(children, i + 1, st1))

(* mutant: with followImports false the pending imports are left out of the table *)
markUnresolvedSkipping(pending, i, table) == table

(* symbols.set(localName, { type: "unresolved" }) for every pending import *)
RECURSIVE markUnresolved(_, _, _)
markUnresolved(pending, i, table) ==
    IF i > Len(pending) THEN table
    ELSE Bind(MapSet(table, pending[i].localName, UnresolvedValue),
              LAMBDA table1 : markUnresolved(pending, i + 1, table1))

----------------------------------------------------------------------------
(* import-resolver.ts *)

(* node:path dirname and resolve on segment sequences *)
dirname(path) == SubSeq(path, 1, Len(path) - 1)

RECURSIVE resolve(_, _)
resolve(dir, segments) ==
    IF Len(segments) = 0 THEN dir
    ELSE LET seg == Head(segments)
         IN resolve(IF seg = "." \/ seg = "" THEN dir
                    ELSE IF seg = ".." THEN dirname(dir)
                    ELSE Append(dir, seg),
                    Tail(segments))

withExt(path, ext) == [path EXCEPT ![Len(path)] = @ \o ext]

extensions == <<".ts", ".tsx", ".js", ".jsx">>

(* file contents: a source text the parser accepts (given as its AST), one *)
(* it rejects, or a path that exists and cannot be read (a directory)       *)
Absent == [kind |-> "absent"]

Source(ast) == [kind |-> "source", ast |-> ast]

Broken == [kind |-> "broken"]

Directory == [kind |-> "directory"]

(* fileReader.exists *)
exists(fs, path) == path \in DOMAIN fs /\ fs[path] # Absent

(* for (const ext of extensions): the first withExt that exists, else unchanged *)
RECURSIVE tryExtensions(_, _, _)
tryExtensions(fs, resolvedPath, i) ==
    IF i > Len(extensions) THEN resolvedPath
    ELSE IF exists(fs, withExt(resolvedPath, extensions[i]))
    THEN withExt(resolvedPath, extensions[i])
    ELSE tryExtensions(fs, resolvedPath, i + 1)

(* for (const ext of extensions): the first index file that exists, else unchanged *)
RECURSIVE tryIndex(_, _, _)
tryIndex(fs, resolvedPath, i) ==
    IF i > Len(extensions) THEN resolvedPath
    ELSE IF exists(fs, resolve(resolvedPath, <<"index" \o extensions[i]>>))
    THEN resolve(resolvedPath, <<"index" \o extensions[i]>>)
    ELSE tryIndex(fs, resolvedPath, i + 1)

(* mutant: the index files are probed before the extensions *)
locateIndexFirst(fs, currentFilePath, importPath) ==
    LET asIs == resolve(dirname(currentFilePath), importPath)
        withIndex == IF ~exists(fs, asIs) THEN tryIndex(fs, asIs, 1) ELSE asIs
        withExtension == IF ~exists(fs, withIndex)
                         THEN tryExtensions(fs, withIndex, 1)
                         ELSE withIndex
    IN [resolvedPath |-> withExtension, exists |-> exists(fs, withExtension)]

(* resolveImport down to its last fileReader.exists(resolvedPath): the   *)
(* resolvedPath arrived at, and whether it exists                          *)
locate(fs, currentFilePath, importPath) ==
    LET asIs == resolve(dirname(currentFilePath), importPath)
        withExtension == IF ~exists(fs, asIs) THEN tryExtensions(fs, asIs, 1) ELSE asIs
        withIndex == IF ~exists(fs, withExtension)
                     THEN tryIndex(fs, withExtension, 1)
                     ELSE withExtension
    IN [resolvedPath |-> withIndex, exists |-> exists(fs, withIndex)]

(* mutant: a namespace import holds every binding of the table *)
namespacePropertiesAll(table) == table

(* for (const [name, value] of symbols) if (value.type !== "unresolved") ... *)
namespaceProperties(table) ==
    SelectSeq(table, LAMBDA entry : entry.value.type # "unresolved")

getExportedValue(table, exportName) ==
    IF exportName = "*" THEN ObjectValue(namespaceProperties(table))
    ELSE IF exportName = "default" THEN MapGet(table, "default")
    ELSE MapGet(table, exportName)

(* mutant: the cache is keyed by the specifier as written *)
cacheKeyBySpecifier(resolvedPath, importPath) == importPath

(* the key of importCache.has, importCache.get and importCache.set *)
cacheKey(resolvedPath, importPath) == resolvedPath

(* mutant: the builder of an imported file follows that file's own imports, *)
(* reading each target it locates                                            *)
RECURSIVE followOnce(_, _, _, _, _)
followOnce(pending, i, filePath, fs, acc) ==
    IF i > Len(pending) THEN acc
    ELSE LET target == locate(fs, filePath, pending[i].sourcePath)
             content == fs[target.resolvedPath]
             inner == visit(content.ast, [symbols |-> <<>>, pendingImports |-> <<>>])
             value ==
                 IF target.exists /\ content.kind = "source" /\ inner # TypeError
                 THEN getExportedValue(
                          markUnresolved(inner.pendingImports, 1, inner.symbols),
                          pending[i].importedName)
                 ELSE undefined
         IN Bind([symbols |-> MapSet(acc.symbols, pending[i].localName,
                                     IF value = undefined THEN UnresolvedValue
                                     ELSE value),
                  reads |-> IF target.exists
                            THEN Append(acc.reads, target.resolvedPath)
                            ELSE acc.reads],
                 LAMBDA acc1 : followOnce(pending, i + 1, filePath, fs, acc1))

buildImportSymbolTableFollowing(importAst, filePath, fs) ==
    LET st == visit(importAst, [symbols |-> <<>>, pendingImports |-> <<>>])
    IN IF st = TypeError THEN TypeError
       ELSE followOnce(st.pendingImports, 1, filePath, fs,
                       [symbols |-> st.symbols, reads |-> <<>>])

(* mutant: the table is handed over when only the first statement of the  *)
(* module has been visited                                                  *)
buildImportSymbolTablePartial(importAst, filePath, fs) ==
    LET st == visit(File(SubSeq(importAst.program.body, 1, 1)),
                    [symbols |-> <<>>, pendingImports |-> <<>>])
    IN IF st = TypeError THEN TypeError
       ELSE [symbols |-> markUnresolved(st.pendingImports, 1, st.symbols),
             reads |-> <<>>]

(* buildSymbolTable(importAst, { currentFilePath: filePath,               *)
(*                               followImports: false, fileReader }):       *)
(* TypeError, or the table as symbols with the paths it read as reads: the  *)
(* import loop marks every pending import unresolved and reads nothing      *)
buildImportSymbolTable(importAst, filePath, fs) ==
    Bind(visit(importAst, [symbols |-> <<>>, pendingImports |-> <<>>]),
         LAMBDA st :
           IF st = TypeError THEN TypeError
           ELSE [symbols |-> markUnresolved(st.pendingImports, 1, st.symbols),
                 reads |-> <<>>])

(* what one resolveImport call answers and does; located says whether a  *)
(* target file was found at resolvedPath                                    *)
ImportOutcome(value, cache, located, path, didRead, didParse, didBuild, reads) ==
    [value |-> value, cache |-> cache, located |-> located, resolvedPath |-> path,
     didRead |-> didRead, didParse |-> didParse, didBuild |-> didBuild,
     reads |-> reads]

(* mutant: every call reads, parses and builds; the cache is never consulted *)
resolveImportUncached(cache, fs, currentFilePath, importPath, importedName) ==
    LET target == locate(fs, currentFilePath, importPath)
        resolvedPath == target.resolvedPath
    IN IF ~target.exists
       THEN ImportOutcome(undefined, cache, FALSE, resolvedPath,
                          FALSE, FALSE, FALSE, <<>>)
       ELSE LET content == fs[resolvedPath]
            IN IF content.kind # "source"
               THEN ImportOutcome(undefined, cache, TRUE, resolvedPath,
                                  TRUE, content.kind = "broken", FALSE,
                                  <<resolvedPath>>)
               ELSE LET importedSymbols ==
                            buildImportSymbolTable(content.ast, resolvedPath, fs)
                    IN ImportOutcome(
                           getExportedValue(importedSymbols.symbols, importedName),
                           MapSet(cache, resolvedPath, importedSymbols.symbols),
                           TRUE, resolvedPath, TRUE, TRUE, TRUE,
                           <<resolvedPath>> \o importedSymbols.reads)

(* mutant: a target that cannot be read or parsed is cached as an empty table *)
resolveImportCachesFailure(cache, fs, currentFilePath, importPath, importedName) ==
    LET target == locate(fs, currentFilePath, importPath)
        resolvedPath == target.resolvedPath
    IN IF ~target.exists
       THEN ImportOutcome(undefined, cache, FALSE, resolvedPath,
                          FALSE, FALSE, FALSE, <<>>)
       ELSE IF MapHas(cache, resolvedPath)
       THEN ImportOutcome(getExportedValue(MapGet(cache, resolvedPath), importedName),
                          cache, TRUE, resolvedPath, FALSE, FALSE, FALSE, <<>>)
       ELSE LET content == fs[resolvedPath]
            IN IF content.kind # "source"
               THEN ImportOutcome(undefined, MapSet(cache, resolvedPath, <<>>),
                                  TRUE, resolvedPath,
                                  TRUE, content.kind = "broken", FALSE,
                                  <<resolvedPath>>)
               ELSE LET importedSymbols ==
                            buildImportSymbolTable(content.ast, resolvedPath, fs)
                    IN ImportOutcome(
                           getExportedValue(importedSymbols.symbols, importedName),
                           MapSet(cache, resolvedPath, importedSymbols.symbols),
                           TRUE, resolvedPath, TRUE, TRUE, TRUE,
                           <<resolvedPath>> \o importedSymbols.reads)

(* buildSymbolTableFn is buildImportSymbolTable; an exception raised by   *)
(* read, parse or the builder is caught and undefined is returned; reads   *)
(* lists the paths handed to fileReader.read during the call               *)
resolveImport(cache, fs, currentFilePath, importPath, importedName) ==
    LET target == locate(fs, currentFilePath, importPath)
        resolvedPath == target.resolvedPath
        key == cacheKey(resolvedPath, importPath)
    IN IF ~target.exists
       THEN ImportOutcome(undefined, cache, FALSE, resolvedPath,
                          FALSE, FALSE, FALSE, <<>>)
       ELSE IF MapHas(cache, key)
       THEN ImportOutcome(getExportedValue(MapGet(cache, key), importedName),
                          cache, TRUE, resolvedPath, FALSE, FALSE, FALSE, <<>>)
       ELSE LET content == fs[resolvedPath]
            IN IF content.kind = "directory"
               THEN ImportOutcome(undefined, cache, TRUE, resolvedPath,
                                  TRUE, FALSE, FALSE, <<resolvedPath>>)
               ELSE IF content.kind = "broken"
               THEN ImportOutcome(undefined, cache, TRUE, resolvedPath,
                                  TRUE, TRUE, FALSE, <<resolvedPath>>)
               ELSE Bind(buildImportSymbolTable(content.ast, resolvedPath, fs),
                         LAMBDA importedSymbols :
                           IF importedSymbols = TypeError
                           THEN ImportOutcome(undefined, cache, TRUE, resolvedPath,
                                              TRUE, TRUE, TRUE, <<resolvedPath>>)
                           ELSE ImportOutcome(
                                    getExportedValue(importedSymbols.symbols,
                                                     importedName),
                                    MapSet(cache, key, importedSymbols.symbols),
                                    TRUE, resolvedPath, TRUE, TRUE, TRUE,
                                    <<resolvedPath>> \o importedSymbols.reads))

(* symbol-table.ts: buildSymbolTable with its options *)

(* options: currentFilePath (the empty path when absent) and followImports *)
Options(currentFilePath, followImports) ==
    [currentFilePath |-> currentFilePath, followImports |-> followImports]

(* for (const { localName, importedName, sourcePath } of pendingImports):  *)
(* st holds symbols, the import cache, the resolveImport calls made and the *)
(* paths read                                                               *)
(* mutant: an import that cannot be resolved discards the bindings made so far *)
RECURSIVE importLoopDiscarding(_, _, _, _, _)
importLoopDiscarding(pending, i, options, fs, st) ==
    IF i > Len(pending) THEN st
    ELSE IF options.currentFilePath = <<>> \/ ~options.followImports
    THEN importLoopDiscarding(
             pending, i + 1, options, fs,
             [st EXCEPT !.symbols = MapSet(@, pending[i].localName, UnresolvedValue)])
    ELSE LET outcome == resolveImport(st.cache, fs, options.currentFilePath,
                                      pending[i].sourcePath, pending[i].importedName)
         IN importLoopDiscarding(
                pending, i + 1, options, fs,
                [symbols |-> IF outcome.value # undefined
                             THEN MapSet(st.symbols, pending[i].localName, outcome.value)
                             ELSE <<[key |-> pending[i].localName,
                                     value |-> UnresolvedValue]>>,
                 cache |-> outcome.cache,
                 calls |-> Append(st.calls,
                                  [localName |-> pending[i].localName,
                                   importedName |-> pending[i].importedName,
                                   sourcePath |-> pending[i].sourcePath,
                                   located |-> outcome.located,
                                   resolvedPath |-> outcome.resolvedPath,
                                   didRead |-> outcome.didRead,
                                   didBuild |-> outcome.didBuild,
                                   value |-> outcome.value]),
                 reads |-> st.reads \o outcome.reads])

(* mutant: imports are followed whenever a file path is given *)
RECURSIVE importLoopIgnoresFollowImports(_, _, _, _, _)
importLoopIgnoresFollowImports(pending, i, options, fs, st) ==
    IF i > Len(pending) THEN st
    ELSE IF options.currentFilePath = <<>>
    THEN importLoopIgnoresFollowImports(
             pending, i + 1, options, fs,
             [st EXCEPT !.symbols = MapSet(@, pending[i].localName, UnresolvedValue)])
    ELSE LET outcome == resolveImport(st.cache, fs, options.currentFilePath,
                                      pending[i].sourcePath, pending[i].importedName)
         IN importLoopIgnoresFollowImports(
                pending, i + 1, options, fs,
                [symbols |-> MapSet(st.symbols, pending[i].localName,
                                    IF outcome.value # undefined THEN outcome.value
                                    ELSE UnresolvedValue),
                 cache |-> outcome.cache,
                 calls |-> Append(st.calls,
                                  [localName |-> pending[i].localName,
                                   importedName |-> pending[i].importedName,
                                   sourcePath |-> pending[i].sourcePath,
                                   located |-> outcome.located,
                                   resolvedPath |-> outcome.resolvedPath,
                                   didRead |-> outcome.didRead,
                                   didBuild |-> outcome.didBuild,
                                   value |-> outcome.value]),
                 reads |-> st.reads \o outcome.reads])

RECURSIVE importLoop(_, _, _, _, _)
importLoop(pending, i, options, fs, st) ==
    IF i > Len(pending) THEN st
    ELSE IF options.currentFilePath = <<>> \/ ~options.followImports
    THEN Bind([st EXCEPT !.symbols = MapSet(@, pending[i].localName, UnresolvedValue)],
              LAMBDA st1 : importLoop(pending, i + 1, options, fs, st1))
    ELSE Bind(resolveImport(st.cache, fs, options.currentFilePath,
                            pending[i].sourcePath, pending[i].importedName),
              LAMBDA outcome :
                Bind([symbols |-> MapSet(st.symbols, pending[i].localName,
                                         IF outcome.value # undefined
                                         THEN outcome.value
                                         ELSE UnresolvedValue),
                      cache |-> outcome.cache,
                      calls |-> Append(st.calls,
                                   [localName |-> pending[i].localName,
                                    importedName |-> pending[i].importedName,
                                    sourcePath |-> pending[i].sourcePath,
                                    located |-> outcome.located,
                                    resolvedPath |-> outcome.resolvedPath,
                                    didRead |-> outcome.didRead,
                                    didBuild |-> outcome.didBuild,
                                    value |-> outcome.value]),
                      reads |-> st.reads \o outcome.reads],
                     LAMBDA st1 : importLoop(pending, i + 1, options, fs, st1)))

(* buildSymbolTable(ast, options) with the import cache and the files it   *)
(* works on: TypeError, or the table with the cache it leaves, the          *)
(* resolveImport calls it made and the paths it read                        *)
buildSymbolTable(ast, options, cache, fs) ==
    Bind(visit(ast, [symbols |-> <<>>, pendingImports |-> <<>>]),
         LAMBDA st :
           IF st = TypeError THEN TypeError
           ELSE importLoop(st.pendingImports, 1, options, fs,
                           [symbols |-> st.symbols, cache |-> cache,
                            calls |-> <<>>, reads |-> <<>>]))

----------------------------------------------------------------------------
(* analyzer.ts. Selectors, tags, class names and patterns are texts: a     *)
(* text is the sequence of its characters.                                  *)

NoAudit == [none |-> TRUE]

Uppers ==
    <<"A", "B", "C", "D", "E", "F", "G", "H", "I", "J", "K", "L", "M",
      "N", "O", "P", "Q", "R", "S", "T", "U", "V", "W", "X", "Y", "Z">>

Lowers ==
    <<"a", "b", "c", "d", "e", "f", "g", "h", "i", "j", "k", "l", "m",
      "n", "o", "p", "q", "r", "s", "t", "u", "v", "w", "x", "y", "z">>

toLowerCase(text) ==
    [i \in DOMAIN text |->
        IF \E k \in DOMAIN Uppers : Uppers[k] = text[i]
        THEN Lowers[CHOOSE k \in DOMAIN Uppers : Uppers[k] = text[i]]
        ELSE text[i]]

(* text.includes(part) *)
includes(text, part) ==
    \E start \in 0..Len(text) :
       /\ start + Len(part) <= Len(text)
       /\ \A k \in DOMAIN part : text[start + k] = part[k]

(* array.includes(item) *)
contains(array, item) == \E i \in DOMAIN array : array[i] = item

(* new RegExp("^...$") built from a pattern whose "*" became ".*" and     *)
(* whose other characters match themselves, tested from position i of the   *)
(* value and position j of the pattern; the texts hold no line break and    *)
(* the patterns no "?"                                                      *)
RECURSIVE regexTest(_, _, _, _)
regexTest(value, i, pattern, j) ==
    IF j > Len(pattern) THEN i > Len(value)
    ELSE IF pattern[j] = "*"
    THEN \/ regexTest(value, i, pattern, j + 1)
         \/ i <= Len(value) /\ regexTest(value, i + 1, pattern, j)
    ELSE /\ i <= Len(value)
         /\ value[i] = pattern[j]
         /\ regexTest(value, i + 1, pattern, j + 1)

(* the "i" flag: letters match in either case *)
matchesPattern(value, pattern) ==
    regexTest(toLowerCase(value), 1, toLowerCase(pattern), 1)

matchesAnyPattern(value, patterns) ==
    \E k \in DOMAIN patterns : matchesPattern(value, patterns[k])

TagButton == <<"b", "u", "t", "t", "o", "n">>

TagA == <<"a">>

TagInput == <<"i", "n", "p", "u", "t">>

TagSelect == <<"s", "e", "l", "e", "c", "t">>

TagTextarea == <<"t", "e", "x", "t", "a", "r", "e", "a">>

TagRoleButton == <<"r", "o", "l", "e", "-">> \o TagButton

TagRoleLink == <<"r", "o", "l", "e", "-", "l", "i", "n", "k">>

TagUnknown == <<"u", "n", "k", "n", "o", "w", "n">>

DEFAULT_REQUIRED_STATES ==
    <<[key |-> TagButton, value |-> <<"hover", "focus", "disabled">>],
      [key |-> TagA, value |-> <<"hover", "focus">>],
      [key |-> TagInput, value |-> <<"focus", "disabled">>],
      [key |-> TagSelect, value |-> <<"focus", "disabled">>],
      [key |-> TagTextarea, value |-> <<"focus", "disabled">>],
      [key |-> TagRoleButton, value |-> <<"hover", "focus", "disabled">>],
      [key |-> TagRoleLink, value |-> <<"hover", "focus">>],
      [key |-> TagUnknown, value |-> <<"hover", "focus">>]>>

(* customStates is a map from element types to states; the empty map      *)
(* stands for undefined too, which names no element type either             *)
getRequiredStates(elementType, customStates) ==
    IF MapHas(customStates, elementType)
    THEN MapGet(customStates, elementType)
    ELSE IF MapHas(DEFAULT_REQUIRED_STATES, elementType)
    THEN MapGet(DEFAULT_REQUIRED_STATES, elementType)
    ELSE <<"hover", "focus">>

inferElementType(selector) ==
    LET lower == toLowerCase(selector)
    IN IF includes(lower, TagButton) \/ includes(lower, <<"b", "t", "n">>)
       THEN TagButton
       ELSE IF \/ includes(lower, <<"l", "i", "n", "k">>)
               \/ includes(lower, <<"a", "n", "c", "h", "o", "r">>)
       THEN TagA
       ELSE IF includes(lower, TagInput) THEN TagInput
       ELSE IF includes(lower, TagSelect) THEN TagSelect
       ELSE IF includes(lower, TagTextarea) THEN TagTextarea
       ELSE TagUnknown

(* element.className || `<${element.tag}>` *)
selectorValue(element) ==
    IF element.className # <<>> THEN element.className
    ELSE <<"<">> \o element.tag \o <<">">>

(* the states required of a JSX element, after the filters *)
requiredStates(element, customStates) ==
    LET base == IF element.isContentRegion THEN <<"focus">>
                ELSE getRequiredStates(element.tag, customStates)
        s1 == IF ~element.canBeDisabled \/ element.hasConditionalDisabled
              THEN SelectSeq(base, LAMBDA s : s # "disabled") ELSE base
        s2 == IF ~element.canBeInvalid
              THEN SelectSeq(s1, LAMBDA s : s # "invalid") ELSE s1
        s3 == IF ~element.hasPlaceholder
              THEN SelectSeq(s2, LAMBDA s : s # "placeholder") ELSE s2
    IN IF element.isRadioOrCheckbox
       THEN SelectSeq(s3, LAMBDA s : s # "hover") ELSE s3

(* mutant: missing states are computed for every element *)
missingStatesOfAny(hasUnresolvedExpressions, required, presentStates) ==
    SelectSeq(required, LAMBDA s : ~contains(presentStates, s))

(* element.hasUnresolvedExpressions ? [] : requiredStates.filter(...) *)
missingStates(hasUnresolvedExpressions, required, presentStates) ==
    IF hasUnresolvedExpressions THEN <<>>
    ELSE SelectSeq(required, LAMBDA s : ~contains(presentStates, s))

(* Object.fromEntries(requiredStates.map(s => [s, { present, location }])) *)
RECURSIVE stateEntries(_, _, _, _, _, _)
stateEntries(required, i, presentStates, file, line, acc) ==
    IF i > Len(required) THEN acc
    ELSE stateEntries(
             required, i + 1, presentStates, file, line,
             MapSet(acc, required[i],
                    [present |-> contains(presentStates, required[i]),
                     location |-> IF contains(presentStates, required[i])
                                  THEN [file |-> file, line |-> line]
                                  ELSE undefined]))

(* analyses.push({ ... }); from is the element or selector analysed *)
StateAnalysis(selector, file, elementType, required, from) ==
    [selector |-> selector, file |-> file, line |-> from.line,
     elementType |-> elementType,
     states |-> stateEntries(required, 1, from.states, file, from.line, <<>>),
     requiredStates |-> required,
     missingStates |-> missingStates(from.hasUnresolvedExpressions, required,
                                     from.states),
     hasUnresolvedExpressions |-> from.hasUnresolvedExpressions,
     unresolvedExpressions |-> from.unresolvedExpressions]

(* the loop over the elements of one JSX file *)
RECURSIVE analyzeElements(_, _, _, _, _)
analyzeElements(file, elements, i, options, analyses) ==
    IF i > Len(elements) THEN analyses
    ELSE IF /\ Len(options.ignoreElements) > 0
            /\ matchesAnyPattern(selectorValue(elements[i]), options.ignoreElements)
    THEN analyzeElements(file, elements, i + 1, options, analyses)
    ELSE analyzeElements(
             file, elements, i + 1, options,
             Append(analyses,
                    StateAnalysis(
                        selectorValue(elements[i]), file, elements[i].tag,
                        requiredStates(elements[i], options.customRequiredStates),
                        elements[i])))

RECURSIVE analyzeJsx(_, _, _, _)
analyzeJsx(results, f, options, analyses) ==
    IF f > Len(results) THEN analyses
    ELSE analyzeJsx(results, f + 1, options,
                    analyzeElements(results[f].key, results[f].value.elements, 1,
                                    options, analyses))

(* the loop over the selectors of one CSS file *)
RECURSIVE analyzeSelectors(_, _, _, _, _)
analyzeSelectors(file, selectors, i, options, analyses) ==
    IF i > Len(selectors) THEN analyses
    ELSE IF /\ Len(options.ignoreSelectors) > 0
            /\ matchesAnyPattern(selectors[i].selector, options.ignoreSelectors)
    THEN analyzeSelectors(file, selectors, i + 1, options, analyses)
    ELSE analyzeSelectors(
             file, selectors, i + 1, options,
             Append(analyses,
                    StateAnalysis(
                        selectors[i].selector, file,
                        inferElementType(selectors[i].selector),
                        getRequiredStates(inferElementType(selectors[i].selector),
                                          options.customRequiredStates),
                        [line |-> selectors[i].line,
                         states |-> selectors[i].states,
                         hasUnresolvedExpressions |-> FALSE,
                         unresolvedExpressions |-> <<>>])))

RECURSIVE analyzeCss(_, _, _, _)
analyzeCss(results, f, options, analyses) ==
    IF f > Len(results) THEN analyses
    ELSE analyzeCss(results, f + 1, options,
                    analyzeSelectors(results[f].key, results[f].value.selectors, 1,
                                     options, analyses))

(* analyses.reduce((sum, a) => sum + count(a), 0) *)
RECURSIVE reduceSum(_, _)
reduceSum(counts, i) ==
    IF i > Len(counts) THEN 0
    ELSE counts[i] + reduceSum(counts, i + 1)

(* Math.round((present / total) * 100): the nearest integer, halves up *)
roundPercent(present, total) == (200 * present + total) \div (2 * total)

analyze(options) ==
    LET analyses ==
            analyzeCss(options.cssResults, 1, options,
                       analyzeJsx(options.jsxResults, 1, options, <<>>))
        filesSet ==
            {options.jsxResults[f].key : f \in DOMAIN options.jsxResults}
            \cup {options.cssResults[f].key : f \in DOMAIN options.cssResults}
        resolvedAnalyses ==
            SelectSeq(analyses, LAMBDA a : ~a.hasUnresolvedExpressions)
        unresolvedCount ==
            Len(SelectSeq(analyses, LAMBDA a : a.hasUnresolvedExpressions))
        totalRequired ==
            reduceSum([i \in DOMAIN resolvedAnalyses |->
                          Len(resolvedAnalyses[i].requiredStates)], 1)
        totalPresent ==
            reduceSum([i \in DOMAIN resolvedAnalyses |->
                          Len(resolvedAnalyses[i].requiredStates)
                          - Len(resolvedAnalyses[i].missingStates)], 1)
        percentage ==
            IF totalRequired > 0 THEN roundPercent(totalPresent, totalRequired)
            ELSE 100
    IN [files |-> Cardinality(filesSet),
        elements |-> Len(analyses),
        analyses |-> analyses,
        coverage |-> [total |-> totalRequired, present |-> totalPresent,
                      percentage |-> percentage],
        unresolvedCount |-> unresolvedCount,
        passed |-> percentage >= options.threshold,
        threshold |-> options.threshold,
        parseErrors |-> <<>>]

----------------------------------------------------------------------------
(* The inputs of resolveExpression: bounded sets of tables and nodes *)

MaxObjDepth == 2

MaxChain == 3

MaxTemplateExprs == 2

Leaves ==
    {StringValue("a"), StringValue("b"), StringValue(""), UnresolvedValue}

Properties(x, y) == <<[key |-> "p", value |-> x], [key |-> "q", value |-> y]>>

(* object literals nested to depth at most d *)
RECURSIVE Objects(_)
Objects(d) ==
    IF d = 0 THEN {}
    ELSE {ObjectValue(<<>>)} \cup
         {ObjectValue(Properties(x, y)) : x \in Leaves \cup Objects(d - 1),
                                          y \in Leaves}

BaseTable == <<[key |-> "s", value |-> StringValue("btn")]>>

TablesOver(values) == {BaseTable} \cup {MapSet(BaseTable, "o", v) : v \in values}

RichTables == TablesOver(Leaves \cup Objects(MaxObjDepth))

BasicTables == TablesOver(Leaves \cup Objects(1))

(* property-access chains o.p, o[q], o.p.q, ... of at most n steps *)
Steps(base) ==
    {MemberExpression(base, Identifier(n), c) : n \in {"p", "q"}, c \in BOOLEAN}

RECURSIVE Chains(_)
Chains(n) ==
    IF n = 0 THEN {Identifier("o")}
    ELSE LET prev == Chains(n - 1)
         IN prev \cup UNION {Steps(b) : b \in prev}

MemberExprs ==
    (Chains(MaxChain) \ Chains(0))
    \cup Steps(Identifier("m"))
    \cup {MemberExpression(b, StringLiteral("p"), TRUE) : b \in Chains(1)}
    \cup {MemberExpression(OtherNode("ThisExpression"), Identifier("p"), FALSE)}
    \cup {MemberExpression(
              MemberExpression(Identifier("tokens"), Identifier("effects"), FALSE),
              Identifier("focusRing"), FALSE),
          MemberExpression(Identifier("variantClasses"), Identifier("variant"), TRUE)}

Core ==
    {StringLiteral("x"), StringLiteral(""),
     Identifier("s"), Identifier("o"), Identifier("m"),
     MemberExpression(Identifier("o"), Identifier("p"), FALSE),
     MemberExpression(Identifier("o"), Identifier("k"), TRUE),
     OtherNode("ArrayExpression")}

(* nodes no parser builds: a child the code reads is missing *)
Malformed ==
    {CallExpression(undefined, <<>>),
     MemberExpression(undefined, Identifier("p"), FALSE),
     MemberExpression(Identifier("o"), undefined, FALSE),
     MemberExpression(Identifier("o"), undefined, TRUE)}

Others ==
    {OtherNode(t) : t \in {"ArrayExpression", "ArrowFunctionExpression",
                           "BinaryExpression", "NumericLiteral",
                           "TSAsExpression", "Unknown"}}

Conditionals(S) == {ConditionalExpression(Identifier("t"), c, a) : c, a \in S}

Quasis(n, literal) ==
    [i \in 1..(n + 1) |->
        TemplateElement(IF literal THEN "L" \o ToString(i) ELSE "")]

Templates(S) ==
    UNION {{TemplateLiteral(Quasis(n, literal), es) :
                es \in [1..n -> S], literal \in BOOLEAN} :
           n \in 0..MaxTemplateExprs}

MethodNames == STRING_PASSTHROUGH_METHODS \cup {"concat", "toString"}

Callees(S) ==
    {MemberExpression(x, Identifier(m), c) :
        x \in S, m \in MethodNames, c \in BOOLEAN}
    \cup {MemberExpression(x, StringLiteral("trim"), TRUE) : x \in S}
    \cup {Identifier("f")}

ArgLists == {<<>>, <<StringLiteral("x"), Identifier("m")>>}

Calls(S) == {CallExpression(callee, args) : callee \in Callees(S), args \in ArgLists}

Tiny == {StringLiteral("x"), Identifier("s"), Identifier("m")}

(* one more level of conditional, template and method call around S *)
Nest(S) ==
    S \cup Conditionals(S)
      \cup {TemplateLiteral(Quasis(1, TRUE), <<e>>) : e \in S}
      \cup {CallExpression(MemberExpression(e, Identifier(m), FALSE), <<>>) :
                e \in S, m \in {"trim", "concat"}}

Exprs ==
    Core \cup Malformed \cup Others
    \cup Conditionals(Core \cup Malformed)
    \cup Templates(Core \cup Malformed)
    \cup Calls(Core \cup Malformed)
    \cup Nest(Nest(Tiny))
    \cup {CallExpression(MemberExpression(e, Identifier("toLowerCase"), FALSE), <<>>) :
            e \in Nest(Nest(Tiny))}

----------------------------------------------------------------------------
(* The inputs of resolveImport: bounded file systems, specifiers, names *)

MaxFiles == 2

MaxBuilds == 2

CurrentFile == <<"project", "component.tsx">>

Paths ==
    {<<"project", "tokens">>,
     <<"project", "tokens.ts">>,
     <<"project", "tokens.jsx">>,
     <<"project", "tokens", "index.ts">>}

Specifiers ==
    {<<".", "tokens">>, <<".", "tokens.ts">>, <<"..", "project", "tokens">>}

ExportNames == {"a", "hidden", "*", "default", "missing"}

Declare(name, init) ==
    VariableDeclaration(<<VariableDeclarator(Identifier(name), init)>>)

(* import { x } from "./other"; export const a = "z"; const hidden = "h"; *)
ModuleA ==
    File(<<ImportDeclaration(<<ImportSpecifier("x", "x")>>, <<".", "other">>),
           ExportNamedDeclaration(Declare("a", StringLiteral("z"))),
           Declare("hidden", StringLiteral("h"))>>)

(* export const a = "y"; *)
ModuleB == File(<<ExportNamedDeclaration(Declare("a", StringLiteral("y")))>>)

Contents == {Source(ModuleA), Source(ModuleB), Broken, Directory}

FileSystems ==
    {fs \in [Paths -> Contents \cup {Absent}] :
        Cardinality({q \in Paths : fs[q] # Absent}) <= MaxFiles}

NoFiles == [q \in Paths |-> Absent]

NoCall == [none |-> TRUE]

NoBuilds == [q \in Paths |-> 0]

NoBuild == [none |-> TRUE]

(* The inputs of buildSymbolTable: analysed files and the projects they    *)
(* import from                                                              *)

MaxImports == 2

(* import { a } from "./tokens.jsx"; export const c = "w"; *)
ModuleC ==
    File(<<ImportDeclaration(<<ImportSpecifier("a", "a")>>, <<".", "tokens.jsx">>),
           ExportNamedDeclaration(Declare("c", StringLiteral("w")))>>)

(* import { c } from "./tokens"; export const a = "v"; *)
ModuleD ==
    File(<<ImportDeclaration(<<ImportSpecifier("c", "c")>>, <<".", "tokens">>),
           ExportNamedDeclaration(Declare("a", StringLiteral("v")))>>)

ProjectContents == {Source(ModuleA), Source(ModuleC), Source(ModuleD), Broken}

(* tokens is absent or a directory, tokens.ts holds any content, and      *)
(* tokens.jsx is absent or a module                                         *)
Projects ==
    {fs \in [Paths -> ProjectContents \cup {Absent, Directory}] :
        /\ fs[<<"project", "tokens">>] \in {Absent, Directory}
        /\ fs[<<"project", "tokens", "index.ts">>] = Absent
        /\ fs[<<"project", "tokens.ts">>] # Directory
        /\ fs[<<"project", "tokens.jsx">>] \in {Absent, Source(ModuleA), Source(ModuleD)}
        /\ Cardinality({q \in Paths : fs[q] # Absent}) <= MaxFiles}

ImportSpecifiers ==
    {ImportSpecifier("a", "a"), ImportSpecifier("a", "b"),
     ImportSpecifier("hidden", "hidden"), ImportSpecifier("missing", "m"),
     ImportDefaultSpecifier("d"), ImportNamespaceSpecifier("ns")}

ImportDeclarations ==
    {ImportDeclaration(<<spec>>, <<".", "tokens">>) : spec \in ImportSpecifiers}

(* the import declarations that may follow the first one *)
LaterDeclarations ==
    {ImportDeclaration(<<ImportNamespaceSpecifier("all")>>, <<".", "tokens.jsx">>)}

RECURSIVE ImportLists(_)
ImportLists(n) ==
    IF n = 1 THEN {<<d>> : d \in ImportDeclarations}
    ELSE ImportLists(n - 1)
         \cup {Append(l, d) : l \in ImportLists(n - 1), d \in LaterDeclarations}

(* analysed files: imports followed by const local = "here" *)
Mains ==
    {File(l \o <<Declare("local", StringLiteral("here"))>>) : l \in ImportLists(MaxImports)}

OptionSets ==
    {Options(<<>>, TRUE), Options(CurrentFile, TRUE), Options(CurrentFile, FALSE)}

(* The inputs of analyze: parse results of at most MaxElements elements   *)
(* and the settings of a run                                                *)

MaxElements == 2

TagDiv == <<"d", "i", "v">>

ClassBtn == <<"b", "t", "n">>

(* the el helper of the analyzer tests: every flag off *)
el(tag, states, className) ==
    [tag |-> tag, line |-> 0, states |-> states, className |-> className,
     hasUnresolvedExpressions |-> FALSE, unresolvedExpressions |-> <<>>,
     isContentRegion |-> FALSE, canBeDisabled |-> FALSE, canBeInvalid |-> FALSE,
     hasPlaceholder |-> FALSE, isRadioOrCheckbox |-> FALSE,
     hasConditionalDisabled |-> FALSE]

(* the same element with a className expression that was not resolved *)
Unresolved(element) ==
    [element EXCEPT !.hasUnresolvedExpressions = TRUE,
                    !.unresolvedExpressions = <<"styles">>]

ResolvedElements ==
    {[el(TagButton, states, className) EXCEPT !.canBeDisabled = TRUE] :
        states \in {<<>>, <<"hover", "focus">>}, className \in {<<>>, ClassBtn}}
    \cup {[el(TagInput, <<"focus">>, <<>>) EXCEPT !.isRadioOrCheckbox = TRUE],
          [el(TagDiv, <<>>, <<>>) EXCEPT !.isContentRegion = TRUE],
          el(TagA, <<"hover">>, <<>>)}

Elements == ResolvedElements \cup {Unresolved(e) : e \in ResolvedElements}

(* the elements of one file, each on the line of its position *)
RECURSIVE ElementLists(_)
ElementLists(n) ==
    IF n = 0 THEN {<<>>}
    ELSE ElementLists(n - 1)
         \cup {Append(l, [e EXCEPT !.line = Len(l) + 1]) :
                  l \in ElementLists(n - 1), e \in Elements}

JsxInputs ==
    {<<[key |-> "test.tsx", value |-> [elements |-> l]]>> :
        l \in ElementLists(MaxElements)}

(* no style sheet, or one with the rule .btn:hover on its first line *)
CssInputs ==
    {<<>>,
     <<[key |-> "test.css",
        value |-> [selectors |-> <<[selector |-> <<".">> \o ClassBtn,
                                    states |-> <<"hover">>,
                                    line |-> 1]>>]]>>}

IgnorePatterns ==
    {<<>>, << <<"<">> \o TagButton \o <<">">> >>, << <<"B", "T", "*">> >>}

CustomStates ==
    {<<>>, <<[key |-> TagButton, value |-> <<"focus", "active">>]>>}

Settings ==
    {[threshold |-> 80, customRequiredStates |-> custom,
      ignoreSelectors |-> selectors, ignoreElements |-> elements] :
        custom \in CustomStates,
        selectors \in {<<>>, << <<".", "b", "*">> >>},
        elements \in IgnorePatterns}

AnalyzeOptions(css, jsx, settings) ==
    [cssResults |-> css, jsxResults |-> jsx,
     threshold |-> settings.threshold,
     customRequiredStates |-> settings.customRequiredStates,
     ignoreSelectors |-> settings.ignoreSelectors,
     ignoreElements |-> settings.ignoreElements]

----------------------------------------------------------------------------
(* Specification of resolveExpression applied to one node and one table *)

Init ==
    /\ pc = "ready"
    /\ result = NoResult
    /\ \/ expr \in MemberExprs /\ symbols \in RichTables
       \/ expr \in Exprs /\ symbols \in BasicTables
    /\ files = NoFiles
    /\ importCache = <<>>
    /\ lastCall = NoCall
    /\ builds = NoBuilds
    /\ lastBuild = NoBuild
    /\ jsxResults = <<>>
    /\ cssResults = <<>>
    /\ audit = NoAudit
    /\ parsing = <<>>

(* mutant: a name that is not bound is recorded in the table as Unresolved *)
ResolveRecording ==
    /\ pc = "ready"
    /\ result' = resolveExpression(expr, symbols)
    /\ pc' = "done"
    /\ symbols' = IF expr.type = "Identifier" /\ ~MapHas(symbols, expr.name)
                  THEN MapSet(symbols, expr.name, UnresolvedValue)
                  ELSE symbols
    /\ UNCHANGED expr
    /\ UNCHANGED importVars
    /\ UNCHANGED analyzerVars
    /\ UNCHANGED parsing

Resolve ==
    /\ pc = "ready"
    /\ result' = resolveExpression(expr, symbols)
    /\ pc' = "done"
    /\ UNCHANGED <<expr, symbols>>
    /\ UNCHANGED importVars
    /\ UNCHANGED analyzerVars
    /\ UNCHANGED parsing

(* stringifyExpr applied to the node *)
Stringify ==
    /\ pc = "ready"
    /\ result' = IF stringifyThrows(expr) THEN TypeError
                 ELSE [text |-> stringifyExpr(expr)]
    /\ pc' = "stringified"
    /\ UNCHANGED <<expr, symbols>>
    /\ UNCHANGED importVars
    /\ UNCHANGED analyzerVars
    /\ UNCHANGED parsing

Next == Resolve \/ Stringify

Spec == Init /\ [][Next]_vars

----------------------------------------------------------------------------
(* Specification of the import resolver: calls of resolveImport and of     *)
(* clearImportCache, interleaved with changes to the files                  *)

InitImport ==
    /\ files \in FileSystems
    /\ importCache = <<>>
    /\ lastCall = NoCall
    /\ builds = NoBuilds
    /\ lastBuild = NoBuild
    /\ expr = undefined
    /\ symbols = <<>>
    /\ result = NoResult
    /\ pc = "idle"
    /\ jsxResults = <<>>
    /\ cssResults = <<>>
    /\ audit = NoAudit
    /\ parsing = <<>>

ResolveImport(importPath, importedName) ==
    \E outcome \in {resolveImport(importCache, files, CurrentFile,
                                  importPath, importedName)} :
       /\ outcome.didBuild => builds[outcome.resolvedPath] < MaxBuilds
       /\ importCache' = outcome.cache
       /\ lastCall' = [importPath |-> importPath, importedName |-> importedName,
                       located |-> outcome.located,
                       resolvedPath |-> outcome.resolvedPath,
                       didRead |-> outcome.didRead, didParse |-> outcome.didParse,
                       didBuild |-> outcome.didBuild, value |-> outcome.value]
       /\ builds' = IF outcome.didBuild
                    THEN [builds EXCEPT ![outcome.resolvedPath] = @ + 1]
                    ELSE builds
       /\ UNCHANGED <<files, lastBuild>>
       /\ UNCHANGED resolverVars
       /\ UNCHANGED analyzerVars
       /\ UNCHANGED parsing

clearImportCache ==
    /\ importCache' = <<>>
    /\ builds' = NoBuilds
    /\ lastCall' = NoCall
    /\ lastBuild' = NoBuild
    /\ UNCHANGED files
    /\ UNCHANGED resolverVars
    /\ UNCHANGED analyzerVars
    /\ UNCHANGED parsing

(* the environment rewrites a file that exists *)
WriteFile(path, content) ==
    /\ files[path] # Absent
    /\ files[path] # content
    /\ files' = [files EXCEPT ![path] = content]
    /\ UNCHANGED <<importCache, lastCall, builds, lastBuild>>
    /\ UNCHANGED resolverVars
    /\ UNCHANGED analyzerVars
    /\ UNCHANGED parsing

NextImport ==
    \/ \E importPath \in Specifiers, importedName \in ExportNames :
           ResolveImport(importPath, importedName)
    \/ clearImportCache
    \/ \E path \in Paths, content \in Contents : WriteFile(path, content)

SpecImport == InitImport /\ [][NextImport]_vars

----------------------------------------------------------------------------
(* Specification of buildSymbolTable: analyses of files that import from   *)
(* a project, sharing the import cache, and calls of clearImportCache       *)

InitBuild ==
    /\ files \in Projects
    /\ importCache = <<>>
    /\ lastCall = NoCall
    /\ builds = NoBuilds
    /\ lastBuild = NoBuild
    /\ expr = undefined
    /\ symbols = <<>>
    /\ result = NoResult
    /\ pc = "idle"
    /\ jsxResults = <<>>
    /\ cssResults = <<>>
    /\ audit = NoAudit
    /\ parsing = <<>>

BuildSymbolTable(ast, options) ==
    \E outcome \in {buildSymbolTable(ast, options, importCache, files)} :
       LET raised == outcome = TypeError
           calls == IF raised THEN <<>> ELSE outcome.calls
       IN /\ importCache' = IF raised THEN importCache ELSE outcome.cache
          /\ lastBuild' = [ast |-> ast, options |-> options, raised |-> raised,
                           symbols |-> IF raised THEN <<>> ELSE outcome.symbols,
                           calls |-> calls,
                           reads |-> IF raised THEN <<>> ELSE outcome.reads]
          /\ builds' = [q \in Paths |->
                           builds[q] + Cardinality({i \in DOMAIN calls :
                                                      /\ calls[i].didBuild
                                                      /\ calls[i].resolvedPath = q})]
          /\ \A q \in Paths : builds'[q] <= MaxBuilds
          /\ UNCHANGED <<files, lastCall>>
          /\ UNCHANGED resolverVars
          /\ UNCHANGED analyzerVars
          /\ UNCHANGED parsing

NextBuild ==
    \/ \E ast \in Mains, options \in OptionSets : BuildSymbolTable(ast, options)
    \/ \E path \in Paths :
           /\ files[path].kind = "source"
           /\ BuildSymbolTable(files[path].ast, Options(path, TRUE))
    \/ clearImportCache

SpecBuild == InitBuild /\ [][NextBuild]_vars

----------------------------------------------------------------------------
(* Specification of parseFile calls in flight together: each awaits the    *)
(* content of its file, then runs parseJsx, and with it buildSymbolTable    *)
(* and every resolveImport of the file, without yielding                    *)

MaxTasks == 2

Tasks == 1..MaxTasks

(* import { a as b } from "./tokens"; import * as all from "./tokens.jsx"; *)
(* and: import * as ns from "./tokens";                                     *)
ScanMains ==
    {File(<<ImportDeclaration(<<ImportSpecifier("a", "b")>>, <<".", "tokens">>),
            ImportDeclaration(<<ImportNamespaceSpecifier("all")>>,
                              <<".", "tokens.jsx">>)>>),
     File(<<ImportDeclaration(<<ImportNamespaceSpecifier("ns")>>,
                              <<".", "tokens">>)>>)}

InitScan ==
    /\ files \in Projects
    /\ importCache = <<>>
    /\ parsing = [t \in Tasks |-> [phase |-> "queued"]]
    /\ lastCall = NoCall
    /\ builds = NoBuilds
    /\ lastBuild = NoBuild
    /\ jsxResults = <<>>
    /\ cssResults = <<>>
    /\ audit = NoAudit
    /\ expr = undefined
    /\ symbols = <<>>
    /\ result = NoResult
    /\ pc = "idle"

(* parseFile awaits readFile: other calls run until the content arrives *)
ReadFile(t, ast) ==
    /\ parsing[t].phase = "queued"
    /\ parsing' = [parsing EXCEPT ![t] = [phase |-> "reading", ast |-> ast]]
    /\ UNCHANGED importVars
    /\ UNCHANGED resolverVars
    /\ UNCHANGED analyzerVars

(* the content has arrived: parser(content, file) runs to its end *)
ParseJsx(t) ==
    /\ parsing[t].phase = "reading"
    /\ \E outcome \in {buildSymbolTable(parsing[t].ast, Options(CurrentFile, TRUE),
                                         importCache, files)} :
          IF outcome = TypeError
          THEN /\ parsing' = [parsing EXCEPT ![t] = [phase |-> "failed"]]
               /\ UNCHANGED <<importCache, builds>>
          ELSE /\ importCache' = outcome.cache
               /\ parsing' = [parsing EXCEPT ![t] =
                                 [phase |-> "parsed", ast |-> parsing[t].ast,
                                  symbols |-> outcome.symbols,
                                  calls |-> outcome.calls]]
               /\ builds' = [q \in Paths |->
                                builds[q]
                                + Cardinality({i \in DOMAIN outcome.calls :
                                                 /\ outcome.calls[i].didBuild
                                                 /\ outcome.calls[i].resolvedPath = q})]
    /\ UNCHANGED <<files, lastCall, lastBuild>>
    /\ UNCHANGED resolverVars
    /\ UNCHANGED analyzerVars

NextScan ==
    \/ \E t \in Tasks, ast \in ScanMains : ReadFile(t, ast)
    \/ \E t \in Tasks : ParseJsx(t)

SpecScan == InitScan /\ [][NextScan]_vars

----------------------------------------------------------------------------
(* Specification of analyze applied to the parse results of one project *)

InitAnalyze ==
    /\ jsxResults \in JsxInputs
    /\ cssResults \in CssInputs
    /\ audit = NoAudit
    /\ parsing = <<>>
    /\ files = NoFiles
    /\ importCache = <<>>
    /\ lastCall = NoCall
    /\ builds = NoBuilds
    /\ lastBuild = NoBuild
    /\ expr = undefined
    /\ symbols = <<>>
    /\ result = NoResult
    /\ pc = "idle"

Analyze(settings) ==
    /\ audit' = [options |-> AnalyzeOptions(cssResults, jsxResults, settings),
                 result |-> analyze(AnalyzeOptions(cssResults, jsxResults, settings))]
    /\ UNCHANGED <<jsxResults, cssResults, parsing>>
    /\ UNCHANGED resolverVars
    /\ UNCHANGED importVars

NextAnalyze == \E settings \in Settings : Analyze(settings)

SpecAnalyze == InitAnalyze /\ [][NextAnalyze]_vars

----------------------------------------------------------------------------
(* Specification of buildSymbolTable over the declarations of one file: the *)
(* file imports from "./tokens", which is ModuleA at tokens.ts              *)

MaxStatements == 2

(* `p-${b}` *)
EmbedB ==
    TemplateLiteral(<<TemplateElement("p-"), TemplateElement("")>>, <<Identifier("b")>>)

(* const a = `p-${b}`, b = "z" *)
ForwardPair ==
    VariableDeclaration(<<VariableDeclarator(Identifier("a"), EmbedB),
                          VariableDeclarator(Identifier("b"), StringLiteral("z"))>>)

(* { p: "a", "q": "b" } *)
LiteralKeys ==
    ObjectExpression(<<ObjectProperty(Identifier("p"), StringLiteral("a"), FALSE),
                       ObjectProperty(StringLiteral("q"), StringLiteral("b"), FALSE)>>)

(* { [k]: "c", p: "a" } *)
ComputedKey ==
    ObjectExpression(<<ObjectProperty(Identifier("k"), StringLiteral("c"), TRUE),
                       ObjectProperty(Identifier("p"), StringLiteral("a"), FALSE)>>)

(* { 1: "n", ...rest, m() {}, p: "a" } *)
OtherKeyForms ==
    ObjectExpression(<<ObjectProperty(OtherNode("NumericLiteral"), StringLiteral("n"), FALSE),
                       OtherNode("SpreadElement"),
                       OtherNode("ObjectMethod"),
                       ObjectProperty(Identifier("p"), StringLiteral("a"), FALSE)>>)

Statements ==
    {Declare("a", StringLiteral("x")),
     Declare("b", StringLiteral("z")),
     Declare("a", EmbedB),
     Declare("a", OtherNode("NumericLiteral")),
     ForwardPair,
     ExportNamedDeclaration(ForwardPair),
     ExportNamedDeclaration(Declare("a", StringLiteral("x"))),
     ExportNamedDeclaration(Declare("a", EmbedB)),
     FunctionDeclaration("f", <<Declare("a", StringLiteral("inner"))>>),
     Declare("g", ArrowFunctionExpression(
                      BlockStatement(<<Declare("n", StringLiteral("inner"))>>))),
     Declare("o", LiteralKeys),
     Declare("o", ComputedKey),
     Declare("o", OtherKeyForms),
     ImportDeclaration(<<ImportSpecifier("a", "a")>>, <<".", "tokens">>),
     ImportDeclaration(<<ImportSpecifier("missing", "b")>>, <<".", "tokens">>)}

RECURSIVE Bodies(_)
Bodies(n) ==
    IF n = 1 THEN {<<s>> : s \in Statements}
    ELSE Bodies(n - 1) \cup {Append(body, s) : body \in Bodies(n - 1), s \in Statements}

Programs == {File(body) : body \in Bodies(MaxStatements)}

DeclareOptions == {Options(<<>>, TRUE), Options(CurrentFile, TRUE)}

DeclareFiles ==
    [q \in Paths |-> IF q = <<"project", "tokens.ts">> THEN Source(ModuleA) ELSE Absent]

InitDeclare ==
    /\ files = DeclareFiles
    /\ importCache = <<>>
    /\ lastCall = NoCall
    /\ builds = NoBuilds
    /\ lastBuild = NoBuild
    /\ expr = undefined
    /\ symbols = <<>>
    /\ result = NoResult
    /\ pc = "idle"
    /\ jsxResults = <<>>
    /\ cssResults = <<>>
    /\ audit = NoAudit
    /\ parsing = <<>>

(* one file is analysed, from an empty import cache *)
NextDeclare ==
    \E ast \in Programs, options \in DeclareOptions :
        /\ lastBuild = NoBuild
        /\ BuildSymbolTable(ast, options)

SpecDeclare == InitDeclare /\ [][NextDeclare]_vars

----------------------------------------------------------------------------
(* What the claims speak of, stated apart from the resolver's own code *)

(* the call has returned a ResolutionResult (it did not raise) *)
Returned == pc = "done" /\ result # TypeError

(* a name, or a chain of static accesses a.b.c rooted in a name *)
RECURSIVE IsStaticPath(_)
IsStaticPath(node) ==
    /\ node # undefined
    /\ \/ node.type = "Identifier"
       \/ /\ node.type = "MemberExpression"
          /\ ~node.computed
          /\ node.property # undefined
          /\ node.property.type = "Identifier"
          /\ IsStaticPath(node.object)

(* the binding a static path denotes in the table, undefined when a step is missing *)
RECURSIVE PathValue(_, _)
PathValue(node, table) ==
    IF node.type = "Identifier" THEN MapGet(table, node.name)
    ELSE LET base == PathValue(node.object, table)
         IN IF base # undefined /\ base.type = "object"
            THEN MapGet(base.properties, node.property.name)
            ELSE undefined

RECURSIVE DottedPath(_)
DottedPath(node) ==
    IF node.type = "Identifier" THEN node.name
    ELSE DottedPath(node.object) \o "." \o node.property.name

(* the non-empty String leaves of a value, depth first in property order *)
RECURSIVE StringLeaves(_)
RECURSIVE StringLeavesFrom(_, _)
StringLeaves(value) ==
    IF value.type = "string"
    THEN IF value.value = "" THEN <<>> ELSE <<value.value>>
    ELSE IF value.type = "object" THEN StringLeavesFrom(value.properties, 1)
    ELSE <<>>

StringLeavesFrom(props, i) ==
    IF i > Len(props) THEN <<>>
    ELSE StringLeaves(props[i].value) \o StringLeavesFrom(props, i + 1)

IsString(v) == v # undefined /\ v.type = "string"

IsObject(v) == v # undefined /\ v.type = "object"

JoinNonEmpty(a, b) ==
    IF a = "" THEN b ELSE IF b = "" THEN a ELSE a \o " " \o b

----------------------------------------------------------------------------
(* C1: whenever resolveExpression returns, isFullyResolved is false exactly *)
(* when unresolvedParts is non-empty, through every nesting.                *)
C1_FullyResolvedIffNoParts ==
    Returned => (result.isFullyResolved <=> result.unresolvedParts = <<>>)

C1_Witness ==
    /\ Returned
    /\ expr.type = "ConditionalExpression"
    /\ expr.consequent.type = "TemplateLiteral"
    /\ expr.alternate.type = "CallExpression"
    /\ ~result.isFullyResolved
    /\ Len(result.unresolvedParts) = 2

(* C2: resolveExpression is total: it returns a result for every node, the  *)
(* malformed ones included, and never raises.                               *)
C2_NeverRaises == pc = "done" => result # TypeError

(* C3: a computed access whose base denotes an Object resolves, fully, to   *)
(* the space-joined non-empty String leaves of that object at every depth,  *)
(* whatever else the object holds.                                          *)
C3_ComputedAccessFlattens ==
    (/\ pc = "done"
     /\ expr.type = "MemberExpression"
     /\ expr.computed
     /\ IsStaticPath(expr.object)
     /\ IsObject(PathValue(expr.object, symbols)))
    => result = Resolution(
                    Join(StringLeaves(PathValue(expr.object, symbols)), " "),
                    TRUE, <<>>)

C3_Witness ==
    /\ pc = "done"
    /\ expr = MemberExpression(Identifier("o"), Identifier("q"), TRUE)
    /\ MapGet(symbols, "o") =
          ObjectValue(Properties(
              ObjectValue(Properties(StringValue("a"), UnresolvedValue)),
              StringValue("b")))
    /\ result = Resolution("a b", TRUE, <<>>)

(* C4: a conditional resolves both branches against the same table: its     *)
(* text is the non-empty branch texts joined by one space, consequent       *)
(* first; it is fully resolved iff both branches are; its unresolvedParts   *)
(* are the consequent's followed by the alternate's.                        *)
C4_ConditionalUnion ==
    (Returned /\ expr.type = "ConditionalExpression")
    => LET c == resolveExpression(expr.consequent, symbols)
           a == resolveExpression(expr.alternate, symbols)
       IN /\ result.resolvedValue = JoinNonEmpty(c.resolvedValue, a.resolvedValue)
          /\ result.isFullyResolved = (c.isFullyResolved /\ a.isFullyResolved)
          /\ result.unresolvedParts = c.unresolvedParts \o a.unresolvedParts

C4_Witness ==
    /\ Returned
    /\ expr.type = "ConditionalExpression"
    /\ expr.consequent.type = "ConditionalExpression"
    /\ expr.alternate = Identifier("s")
    /\ result = Resolution("x btn", FALSE, <<"m">>)

(* C5: a template with literals L0..Ln and expressions E0..En-1 resolves to *)
(* L0 + text(E0) + L1 + ... + Ln, each text appended whether or not Ei      *)
(* resolved; fully resolved iff every Ei is; unresolvedParts are those of   *)
(* the Ei in source order.                                                  *)
RECURSIVE TemplateText(_, _, _)
TemplateText(node, table, i) ==
    IF i > Len(node.expressions) THEN node.quasis[i].value.raw
    ELSE node.quasis[i].value.raw
         \o resolveExpression(node.expressions[i], table).resolvedValue
         \o TemplateText(node, table, i + 1)

RECURSIVE TemplateParts(_, _, _)
TemplateParts(node, table, i) ==
    IF i > Len(node.expressions) THEN <<>>
    ELSE resolveExpression(node.expressions[i], table).unresolvedParts
         \o TemplateParts(node, table, i + 1)

C5_TemplateOrder ==
    (/\ Returned
     /\ expr.type = "TemplateLiteral"
     /\ Len(expr.quasis) = Len(expr.expressions) + 1)
    => /\ result.resolvedValue = TemplateText(expr, symbols, 1)
       /\ result.isFullyResolved =
             (\A i \in DOMAIN expr.expressions :
                 resolveExpression(expr.expressions[i], symbols).isFullyResolved)
       /\ result.unresolvedParts = TemplateParts(expr, symbols, 1)

C5_Witness ==
    /\ Returned
    /\ expr = TemplateLiteral(Quasis(2, TRUE), <<Identifier("m"), Identifier("s")>>)
    /\ result = Resolution("L1L2btnL3", FALSE, <<"m">>)

(* C6: a name bound to a String resolves fully to that text; a name that is *)
(* absent, or bound to an Object or to Unresolved, gives text "", not       *)
(* resolved, and the one fragment [name].                                   *)
C6_NameReference ==
    (pc = "done" /\ expr.type = "Identifier")
    => LET v == MapGet(symbols, expr.name)
       IN IF IsString(v)
          THEN result = Resolution(v.value, TRUE, <<>>)
          ELSE result = Resolution("", FALSE, <<expr.name>>)

C6_Witness ==
    /\ pc = "done"
    /\ expr = Identifier("o")
    /\ IsObject(MapGet(symbols, "o"))
    /\ result = Resolution("", FALSE, <<"o">>)

(* C7: a static access a.b...k resolves fully, with the leaf's text,        *)
(* exactly when the path leads through nested Objects to a String; in every *)
(* other case it is not resolved and its one fragment is the dotted path.   *)
C7_StaticAccess ==
    (pc = "done" /\ expr.type = "MemberExpression" /\ IsStaticPath(expr))
    => LET v == PathValue(expr, symbols)
       IN IF IsString(v)
          THEN result = Resolution(v.value, TRUE, <<>>)
          ELSE result = Resolution("", FALSE, <<DottedPath(expr)>>)

C7_Witness ==
    /\ pc = "done"
    /\ expr = MemberExpression(
                  MemberExpression(Identifier("o"), Identifier("p"), FALSE),
                  Identifier("q"), FALSE)
    /\ result = Resolution("b", TRUE, <<>>)

(* C8: a call resolves to exactly what its receiver resolves to when its    *)
(* callee is a property access named by an allow-listed string method;      *)
(* every other call is unresolved with the one fragment rendering the call. *)
AllowListed ==
    {"trim", "trimStart", "trimEnd", "trimLeft", "trimRight",
     "replace", "replaceAll", "normalize", "toLowerCase", "toUpperCase"}

(* x.trim: the property accessed is the one the source names *)
NamesAllowListedMethod(callee) ==
    /\ callee.type = "MemberExpression"
    /\ ~callee.computed
    /\ callee.property.type = "Identifier"
    /\ callee.property.name \in AllowListed

C8_PassthroughCalls ==
    (Returned /\ expr.type = "CallExpression")
    => IF NamesAllowListedMethod(expr.callee)
       THEN result = resolveExpression(expr.callee.object, symbols)
       ELSE result = Resolution("", FALSE, <<"<expr>">>)

(* C9: a node that is no string literal, name, property access,             *)
(* conditional, template or call resolves to text "", not resolved, with    *)
(* the one fragment rendering the node.                                     *)
HandledTypes ==
    {"StringLiteral", "Identifier", "MemberExpression",
     "ConditionalExpression", "TemplateLiteral", "CallExpression"}

C9_UnhandledNodes ==
    (pc = "done" /\ expr.type \notin HandledTypes)
    => result = Resolution("", FALSE, <<stringifyExpr(expr)>>)

C9_Witness ==
    /\ pc = "done"
    /\ expr = OtherNode("ArrowFunctionExpression")
    /\ result = Resolution("", FALSE, <<"<expr>">>)

(* C10: once a resolved path is cached, every resolveImport that locates it *)
(* (any export name, any spelling of the specifier) answers from the cached *)
(* table without read, parse or builder, until clearImportCache; the        *)
(* builder runs at most once per resolved path between two clears.          *)
C10_CachedPathNotRebuilt ==
    [][/\ \A q \in Paths : builds'[q] <= 1
       /\ (/\ lastCall' # lastCall
           /\ lastCall' # NoCall
           /\ lastCall'.located
           /\ MapHas(importCache, lastCall'.resolvedPath))
          => /\ ~lastCall'.didRead /\ ~lastCall'.didParse /\ ~lastCall'.didBuild
             /\ importCache' = importCache
             /\ lastCall'.value =
                   getExportedValue(MapGet(importCache, lastCall'.resolvedPath),
                                    lastCall'.importedName)]_vars

C10_Witness ==
    /\ lastCall # NoCall
    /\ lastCall.importPath = <<"..", "project", "tokens">>
    /\ lastCall.resolvedPath = <<"project", "tokens.ts">>
    /\ builds[<<"project", "tokens.ts">>] = 1
    /\ ~lastCall.didRead
    /\ files[<<"project", "tokens.ts">>] = Source(ModuleB)
    /\ lastCall.value = StringValue("z")

(* C11: while a path is cached, resolveImport answers from the table of the *)
(* first build even when the file has changed since (a change of the files  *)
(* leaves the cache as it is); clearImportCache leaves the cache empty, and *)
(* a resolveImport that finds its path not cached reads the file again and  *)
(* answers from its current content.                                        *)
C11_StaleUntilCleared ==
    [][/\ files' # files => importCache' = importCache
       /\ lastCall' = NoCall => importCache' = <<>>
       /\ (lastCall' # lastCall /\ lastCall' # NoCall /\ lastCall'.located)
          => IF MapHas(importCache, lastCall'.resolvedPath)
             THEN /\ lastCall'.value =
                        getExportedValue(MapGet(importCache, lastCall'.resolvedPath),
                                         lastCall'.importedName)
                  /\ MapGet(importCache', lastCall'.resolvedPath) =
                        MapGet(importCache, lastCall'.resolvedPath)
             ELSE /\ lastCall'.didRead
                  /\ files[lastCall'.resolvedPath].kind = "source"
                     => LET current == buildImportSymbolTable(
                                           files[lastCall'.resolvedPath].ast,
                                           lastCall'.resolvedPath, files).symbols
                        IN /\ lastCall'.value =
                                 getExportedValue(current, lastCall'.importedName)
                           /\ MapGet(importCache', lastCall'.resolvedPath) = current]_vars

(* a stale answer: the file now says "z", the cached table still says "y" *)
C11_Witness ==
    /\ lastCall # NoCall
    /\ lastCall.importPath = <<".", "tokens">>
    /\ lastCall.importedName = "a"
    /\ lastCall.resolvedPath = <<"project", "tokens.ts">>
    /\ files[<<"project", "tokens.ts">>] = Source(ModuleA)
    /\ ~lastCall.didRead
    /\ lastCall.value = StringValue("y")

(* C14: the target is the first candidate that exists, in the order: the  *)
(* specifier resolved against the current file's directory as-is, then that *)
(* path with .ts, .tsx, .js, .jsx appended, then index.ts, index.tsx,       *)
(* index.js, index.jsx inside it; not-found iff no candidate exists.        *)
Candidates(asIs) ==
    <<asIs,
      withExt(asIs, ".ts"), withExt(asIs, ".tsx"),
      withExt(asIs, ".js"), withExt(asIs, ".jsx"),
      Append(asIs, "index.ts"), Append(asIs, "index.tsx"),
      Append(asIs, "index.js"), Append(asIs, "index.jsx")>>

C14_LocateOrder ==
    lastCall # NoCall
    => LET c == Candidates(resolve(dirname(CurrentFile), lastCall.importPath))
           found == {i \in DOMAIN c : exists(files, c[i])}
       IN IF found = {}
          THEN ~lastCall.located /\ lastCall.value = undefined
          ELSE /\ lastCall.located
               /\ \E i \in found : /\ \A j \in found : i <= j
                                    /\ lastCall.resolvedPath = c[i]

(* tokens.jsx wins over tokens/index.ts when tokens and tokens.ts are absent *)
C14_Witness ==
    /\ lastCall # NoCall
    /\ lastCall.importPath = <<".", "tokens">>
    /\ files[<<"project", "tokens">>] = Absent
    /\ files[<<"project", "tokens.ts">>] = Absent
    /\ files[<<"project", "tokens.jsx">>] # Absent
    /\ files[<<"project", "tokens", "index.ts">>] # Absent
    /\ lastCall.located
    /\ lastCall.resolvedPath = <<"project", "tokens.jsx">>

(* the resolveImport calls of the latest buildSymbolTable *)
ImportCalls == IF lastBuild = NoBuild THEN <<>> ELSE lastBuild.calls

(* the call found no target, or found one that cannot be read or parsed *)
Failed(call) ==
    \/ ~call.located
    \/ files[call.resolvedPath].kind \in {"broken", "directory"}

ImportsOf(ast) ==
    SelectSeq(ast.program.body, LAMBDA node : node.type = "ImportDeclaration")

RECURSIVE SpecifierCount(_, _)
SpecifierCount(declarations, i) ==
    IF i > Len(declarations) THEN 0
    ELSE Len(declarations[i].specifiers) + SpecifierCount(declarations, i + 1)

(* the paths the imports of the analysed file itself resolve to *)
OwnTargets(build) ==
    {locate(files, build.options.currentFilePath,
            ImportsOf(build.ast)[i].source.value).resolvedPath :
        i \in DOMAIN ImportsOf(build.ast)}

(* C13: buildSymbolTable returns for every tree and file system, also when *)
(* files import each other or themselves: it reads at most one file per     *)
(* import specifier of the analysed file, and every file it reads is the    *)
(* target of one of the analysed file's own imports.                        *)
C13_OneLevelOfImports ==
    lastBuild # NoBuild
    => /\ ~lastBuild.raised
       /\ Len(lastBuild.reads) <= SpecifierCount(ImportsOf(lastBuild.ast), 1)
       /\ lastBuild.reads # <<>>
          => \A i \in DOMAIN lastBuild.reads :
                lastBuild.reads[i] \in OwnTargets(lastBuild)

(* tokens.ts imports tokens.jsx, which imports tokens.ts back: analysing    *)
(* tokens.ts reads tokens.jsx and nothing else                              *)
C13_Witness ==
    /\ lastBuild # NoBuild
    /\ files[<<"project", "tokens.ts">>] = Source(ModuleC)
    /\ files[<<"project", "tokens.jsx">>] = Source(ModuleD)
    /\ lastBuild.ast = ModuleC
    /\ lastBuild.options.currentFilePath = <<"project", "tokens.ts">>
    /\ lastBuild.reads = << <<"project", "tokens.jsx">> >>

(* the local names of the import specifiers of a file *)
LocalNames(ast) ==
    UNION {{ImportsOf(ast)[i].specifiers[j].local.name :
               j \in DOMAIN ImportsOf(ast)[i].specifiers} :
           i \in DOMAIN ImportsOf(ast)}

(* the analysis was given no file path, or was told not to follow imports *)
NoFileContext(options) ==
    options.currentFilePath = <<>> \/ ~options.followImports

(* C15: after buildSymbolTable returns, the local name of every import     *)
(* specifier of the tree is a key of the table; without a current file path *)
(* or with followImports false each of them is Unresolved, no file is       *)
(* probed or read, and the import cache is left as it was.                  *)
C15_ImportsAlwaysBound ==
    [][lastBuild' # NoBuild
       => /\ \A name \in LocalNames(lastBuild'.ast) :
                MapHas(lastBuild'.symbols, name)
          /\ NoFileContext(lastBuild'.options)
             => /\ \A name \in LocalNames(lastBuild'.ast) :
                      MapGet(lastBuild'.symbols, name) = UnresolvedValue
                /\ lastBuild'.calls = <<>>
                /\ lastBuild'.reads = <<>>
                /\ importCache' = importCache]_vars

(* tokens.ts is a readable module, yet with followImports false the import *)
(* of a from it is Unresolved and nothing was cached                        *)
C15_Witness ==
    /\ lastBuild # NoBuild
    /\ lastBuild.options = Options(CurrentFile, FALSE)
    /\ files[<<"project", "tokens.ts">>] = Source(ModuleA)
    /\ LocalNames(lastBuild.ast) = {"a", "all"}
    /\ MapGet(lastBuild.symbols, "a") = UnresolvedValue
    /\ MapGet(lastBuild.symbols, "all") = UnresolvedValue
    /\ MapGet(lastBuild.symbols, "local") = StringValue("here")
    /\ importCache = <<>>

(* the bindings of a table as a set of key-value pairs *)
Bindings(table) == {table[i] : i \in DOMAIN table}

(* the table resolveImport extracted the call's value from *)
TargetTable(call) == MapGet(importCache, call.resolvedPath)

(* the binding buildSymbolTable made for the call's local name *)
BoundAs(call) == MapGet(lastBuild.symbols, call.localName)

(* C16: from a target table the name "*" yields an Object holding exactly  *)
(* the bindings whose value is not Unresolved, and is never not-found;      *)
(* "default" and every other name are a lookup of that name; a name missing *)
(* from the table, or a missing module, is not-found and is bound as        *)
(* Unresolved under the local name; a found value such as the "z" of        *)
(* const a = "z" is bound under the local name, renamed or not.             *)
C16_ExportExtraction ==
    \A i \in DOMAIN ImportCalls :
       LET call == ImportCalls[i]
       IN /\ ~call.located
             => call.value = undefined /\ BoundAs(call) = UnresolvedValue
          /\ call.located /\ files[call.resolvedPath].kind = "source"
             => /\ call.importedName = "*"
                   => /\ call.value # undefined
                      /\ call.value.type = "object"
                      /\ Bindings(call.value.properties)
                           = {b \in Bindings(TargetTable(call)) :
                                 b.value # UnresolvedValue}
                /\ call.importedName # "*"
                   => /\ \A b \in Bindings(TargetTable(call)) :
                            b.key = call.importedName => call.value = b.value
                      /\ (\A b \in Bindings(TargetTable(call)) :
                            b.key # call.importedName)
                         => call.value = undefined
                /\ BoundAs(call) = IF call.value = undefined THEN UnresolvedValue
                                   ELSE call.value
                /\ files[call.resolvedPath] = Source(ModuleA)
                   /\ call.importedName = "a"
                   => BoundAs(call) = StringValue("z")

(* import { a as b } from "./tokens" and import * as all from              *)
(* "./tokens.jsx", both files holding ModuleA: b is "z", all holds a and    *)
(* hidden but not the unresolved import x                                   *)
C16_Witness ==
    /\ lastBuild # NoBuild
    /\ files[<<"project", "tokens.ts">>] = Source(ModuleA)
    /\ files[<<"project", "tokens.jsx">>] = Source(ModuleA)
    /\ MapHas(lastBuild.symbols, "b")
    /\ MapHas(lastBuild.symbols, "all")
    /\ MapHas(importCache, <<"project", "tokens.jsx">>)
    /\ MapGet(MapGet(importCache, <<"project", "tokens.jsx">>), "x")
         = UnresolvedValue
    /\ MapGet(lastBuild.symbols, "b") = StringValue("z")
    /\ MapGet(lastBuild.symbols, "all")
         = ObjectValue(<<[key |-> "a", value |-> StringValue("z")],
                         [key |-> "hidden", value |-> StringValue("h")]>>)

(* stringifyExpr has returned a text for the node *)
Stringified == pc = "stringified" /\ result # TypeError

(* a name, or a property-access chain that starts at a name *)
RECURSIVE IsPath(_)
IsPath(node) ==
    \/ node.type = "Identifier"
    \/ /\ node.type = "MemberExpression"
       /\ node.object # undefined
       /\ node.property # undefined
       /\ IsPath(node.object)

(* the name a path starts at *)
RECURSIVE Root(_)
Root(node) == IF node.type = "Identifier" THEN node.name ELSE Root(node.object)

(* the accesses of a path, innermost first: the order of the source text *)
RECURSIVE Accesses(_)
Accesses(node) ==
    IF node.type = "Identifier" THEN <<>>
    ELSE Append(Accesses(node.object), node)

(* the text of one access: .name, or [rendering of the key] *)
AccessText(access) ==
    IF access.computed THEN "[" \o stringifyExpr(access.property) \o "]"
    ELSE "." \o access.property.name

RECURSIVE Concat(_, _)
Concat(texts, i) ==
    IF i > Len(texts) THEN "" ELSE texts[i] \o Concat(texts, i + 1)

PathText(node) ==
    Root(node) \o Concat([i \in DOMAIN Accesses(node) |->
                             AccessText(Accesses(node)[i])], 1)

(* C18: stringifyExpr renders a name reference as the name and a           *)
(* property-access chain as its dotted/bracketed path: the root name, then  *)
(* each static step as .name and each computed step as [rendering of the    *)
(* key], in source order; tokens.effects.focusRing and                      *)
(* variantClasses[variant] render as written.                               *)
C18_PathRendering ==
    /\ Stringified /\ IsPath(expr) => result.text = PathText(expr)
    /\ Stringified /\ expr.type = "Identifier" => result.text = expr.name
    /\ Stringified /\ IsPath(expr) /\ Root(expr) = "tokens"
       => result.text = "tokens.effects.focusRing"
    /\ Stringified /\ IsPath(expr) /\ Root(expr) = "variantClasses"
       => result.text = "variantClasses[variant]"

(* o.p[q].q, a static, a computed and a static step, rendered in order *)
C18_Witness ==
    /\ Stringified
    /\ expr = MemberExpression(
                  MemberExpression(
                      MemberExpression(Identifier("o"), Identifier("p"), FALSE),
                      Identifier("q"), TRUE),
                  Identifier("q"), FALSE)
    /\ result.text = "o.p[q].q"

(* as stated: every node that is neither a name nor a property access     *)
(* renders as the placeholder                                               *)
C19_PlaceholderForAllOthers ==
    Stringified /\ expr.type \notin {"Identifier", "MemberExpression"}
    => result.text = "<expr>"

(* C19: for every node that is neither a name reference, a property-access *)
(* chain nor a string literal, stringifyExpr emits the same fixed           *)
(* placeholder token; a string literal renders as its value in double       *)
(* quotes.                                                                  *)
C19_PlaceholderExceptStrings ==
    /\ Stringified
       /\ expr.type \notin {"Identifier", "MemberExpression", "StringLiteral"}
       => result.text = "<expr>"
    /\ Stringified /\ expr.type = "StringLiteral"
       => result.text = "\"" \o expr.value \o "\""

(* an array literal renders as the placeholder *)
C19_Witness ==
    /\ Stringified
    /\ expr = OtherNode("ArrayExpression")
    /\ result.text = "<expr>"

(* the JSX elements handed to the latest analyze *)
AuditedElements ==
    IF audit.options.jsxResults = <<>> THEN <<>>
    ELSE audit.options.jsxResults[1].value.elements

(* the elements among them whose className expression was not resolved *)
UnresolvedAt ==
    {i \in DOMAIN AuditedElements : AuditedElements[i].hasUnresolvedExpressions}

(* the element is excluded by an ignoreElements pattern of the run *)
Ignored(element) ==
    matchesAnyPattern(selectorValue(element), audit.options.ignoreElements)

(* the options of the latest run with the unresolved elements taken out *)
WithoutUnresolved ==
    [audit.options EXCEPT
        !.jsxResults =
            <<[key |-> "test.tsx",
               value |-> [elements |->
                   SelectSeq(AuditedElements,
                             LAMBDA e : ~e.hasUnresolvedExpressions)]]>>]

(* no analysis of an unresolved element reports a missing state, and the   *)
(* coverage is that of the same project without the unresolved elements     *)
NeverMissingNorCovered ==
    /\ \A i \in DOMAIN audit.result.analyses :
          audit.result.analyses[i].hasUnresolvedExpressions
          => audit.result.analyses[i].missingStates = <<>>
    /\ audit.result.coverage = analyze(WithoutUnresolved).coverage

(* as stated: every unresolved element is counted in unresolvedCount *)
C17_EveryUnresolvedCounted ==
    audit # NoAudit
    => /\ NeverMissingNorCovered
       /\ audit.result.unresolvedCount = Cardinality(UnresolvedAt)

(* C17: an element whose className expression is not fully resolved is     *)
(* never reported as missing a state and never counts in coverage: its      *)
(* analysis has missingStates = [], its required states are left out of     *)
(* coverage.total and coverage.present, and unresolvedCount counts it       *)
(* unless an ignoreElements pattern excludes it, in which case it has no    *)
(* analysis and is counted nowhere.                                         *)
C17_UnresolvedExcluded ==
    audit # NoAudit
    => /\ NeverMissingNorCovered
       /\ audit.result.unresolvedCount
            = Cardinality({i \in UnresolvedAt : ~Ignored(AuditedElements[i])})
       /\ audit.result.elements
            >= Cardinality({i \in DOMAIN AuditedElements :
                              ~Ignored(AuditedElements[i])})

(* a styled button and a button whose className was not resolved: the      *)
(* second has required states but none missing, and coverage counts only    *)
(* the three required states of the first                                   *)
C17_Witness ==
    /\ audit # NoAudit
    /\ audit.options.ignoreElements = <<>>
    /\ audit.options.cssResults = <<>>
    /\ audit.options.customRequiredStates = <<>>
    /\ Len(AuditedElements) = 2
    /\ UnresolvedAt = {2}
    /\ AuditedElements[1].states = <<"hover", "focus">>
    /\ audit.result.analyses[2].requiredStates = <<"hover", "focus", "disabled">>
    /\ audit.result.analyses[2].missingStates = <<>>
    /\ audit.result.coverage.total = 3
    /\ audit.result.coverage.present = 2
    /\ audit.result.unresolvedCount = 1

(* the table of the module at a path, built from its whole content *)
CompleteTable(path) ==
    LET st == visit(files[path].ast, [symbols |-> <<>>, pendingImports |-> <<>>])
    IN markUnresolved(st.pendingImports, 1, st.symbols)

(* the resolveImport calls made by the parseFile calls that have finished *)
ScanCalls ==
    UNION {{parsing[t].calls[i] : i \in DOMAIN parsing[t].calls} :
           t \in {u \in DOMAIN parsing : parsing[u].phase = "parsed"}}

(* C20: when analyses importing the same module are interleaved, the       *)
(* check-cache-else-build-and-insert of resolveImport is atomic per key:    *)
(* every analysis gets its value from the complete table of the module,     *)
(* the cache holds at most one table per resolved path, and that table is   *)
(* the one built from the content read for the path.                        *)
C20_AtomicPerKey ==
    /\ \A call \in ScanCalls :
          call.located /\ files[call.resolvedPath].kind = "source"
          => call.value = getExportedValue(CompleteTable(call.resolvedPath),
                                           call.importedName)
    /\ \A i, j \in DOMAIN importCache :
          importCache[i].key = importCache[j].key => i = j
    /\ \A i \in DOMAIN importCache :
          /\ files[importCache[i].key].kind = "source"
          /\ importCache[i].value = CompleteTable(importCache[i].key)

(* two analyses of files importing tokens.ts were in flight together: the  *)
(* first to run built its table, the second took it from the cache, and     *)
(* both got their value from the whole table                                *)
C20_Witness ==
    /\ files[<<"project", "tokens.ts">>] = Source(ModuleA)
    /\ \A t \in DOMAIN parsing : parsing[t].phase = "parsed"
    /\ \E t, u \in DOMAIN parsing :
          /\ parsing[t].ast # parsing[u].ast
          /\ parsing[t].calls[1].resolvedPath = <<"project", "tokens.ts">>
          /\ parsing[u].calls[1].resolvedPath = <<"project", "tokens.ts">>
          /\ parsing[t].calls[1].didBuild
          /\ ~parsing[u].calls[1].didRead
          /\ MapGet(parsing[t].symbols, "b") = StringValue("z")
          /\ MapHas(parsing[u].symbols, "ns")
    /\ builds[<<"project", "tokens.ts">>] = 1

(* the set of chains got from a chain by putting key in the place of the   *)
(* key of one of its computed accesses                                      *)
RECURSIVE KeyVariants(_, _)
KeyVariants(node, key) ==
    IF node.type # "MemberExpression" THEN {}
    ELSE (IF node.computed THEN {[node EXCEPT !.property = key]} ELSE {})
         \cup {[node EXCEPT !.object = v] : v \in KeyVariants(node.object, key)}

(* expressions to put in the place of a key *)
OtherKeys ==
    {Identifier("p"), Identifier("q"), Identifier("k"), StringLiteral("p"),
     OtherNode("NumericLiteral")}

(* C21: the key of a computed access is never evaluated or used to select  *)
(* a property: in a chain holding a[key] at any position, putting any other *)
(* expression in the place of key leaves the resolved text and              *)
(* isFullyResolved as they are.                                             *)
C21_KeyIndependence ==
    (Returned /\ IsPath(expr))
    => \A key \in OtherKeys :
          \A other \in KeyVariants(expr, key) :
             /\ resolveExpression(other, symbols).resolvedValue
                  = result.resolvedValue
             /\ resolveExpression(other, symbols).isFullyResolved
                  = result.isFullyResolved


----------------------------------------------------------------------------
(* the analysis returned a table *)
Built == lastBuild # NoBuild /\ ~lastBuild.raised

(* the statements of the analysed file *)
Body == lastBuild.ast.program.body

Keys(table) == {table[i].key : i \in DOMAIN table}

(* the declaration an export wraps, any other statement as it is *)
Unwrap(stmt) ==
    IF stmt.type = "ExportNamedDeclaration" THEN stmt.declaration ELSE stmt

(* the same file with every export keyword removed *)
Unexported(ast) ==
    File([i \in DOMAIN ast.program.body |-> Unwrap(ast.program.body[i])])

(* the names of a one-statement file whose template initializer embeds a  *)
(* name that only a later declarator of the same statement declares         *)
ForwardBound(body) ==
    IF Len(body) # 1 \/ Unwrap(body[1]).type # "VariableDeclaration" THEN {}
    ELSE LET ds == Unwrap(body[1]).declarations
         IN {ds[i].id.name : i \in
               {i \in DOMAIN ds :
                  /\ ds[i].init.type = "TemplateLiteral"
                  /\ \A k \in DOMAIN ds : k > i => ds[k].id.name # ds[i].id.name
                  /\ \E e \in DOMAIN ds[i].init.expressions :
                       LET embedded == ds[i].init.expressions[e]
                       IN /\ embedded.type = "Identifier"
                          /\ \E j \in DOMAIN ds : j > i /\ ds[j].id.name = embedded.name
                          /\ \A k \in DOMAIN ds :
                                k <= i => ds[k].id.name # embedded.name}}

(* C22: a template initializer is resolved only against the bindings made  *)
(* earlier in the traversal, so a binding that embeds a name declared by a  *)
(* later declarator is Unresolved; and a file binds every name to the same  *)
(* value as the same file with its export keywords removed.                 *)
C22_ExportTransparent ==
    Built
    => LET plain == buildSymbolTable(Unexported(lastBuild.ast), lastBuild.options,
                                     <<>>, files).symbols
       IN /\ \A name \in ForwardBound(Body) :
                MapGet(lastBuild.symbols, name) = UnresolvedValue
          /\ \A name \in Keys(plain) \cup Keys(lastBuild.symbols) :
                MapGet(lastBuild.symbols, name) = MapGet(plain, name)


(* a function body with its statements removed *)
EmptyBody(fn) == [fn EXCEPT !.body = BlockStatement(<<>>)]

(* the statement with the bodies of the functions it declares or binds    *)
(* emptied: what is left is declared at the top level                       *)
TopLevelOnly(stmt) ==
    IF stmt.type = "FunctionDeclaration" THEN EmptyBody(stmt)
    ELSE IF stmt.type = "VariableDeclaration"
    THEN VariableDeclaration(
            [i \in DOMAIN stmt.declarations |->
                IF stmt.declarations[i].init.type = "ArrowFunctionExpression"
                THEN VariableDeclarator(stmt.declarations[i].id,
                                        EmptyBody(stmt.declarations[i].init))
                ELSE stmt.declarations[i]])
    ELSE stmt

WithoutNested(ast) ==
    File([i \in DOMAIN ast.program.body |-> TopLevelOnly(ast.program.body[i])])

(* C23: only top-level and export-wrapped declarations contribute bindings: *)
(* the table of a file is the table of the same file with every function    *)
(* body emptied, so a nested declaration neither adds an entry nor           *)
(* overwrites the entry of a same-named top-level declaration.               *)
C23_NestedIgnored ==
    Built
    => LET shallow == buildSymbolTable(WithoutNested(lastBuild.ast), lastBuild.options,
                                       <<>>, files).symbols
       IN /\ Keys(lastBuild.symbols) = Keys(shallow)
          /\ \A name \in Keys(shallow) :
                MapGet(lastBuild.symbols, name) = MapGet(shallow, name)


(* the names a statement declares at its top level *)
DeclaredBy(stmt) ==
    IF Unwrap(stmt).type # "VariableDeclaration" THEN {}
    ELSE {Unwrap(stmt).declarations[i].id.name : i \in DOMAIN Unwrap(stmt).declarations}

(* the key is written as a plain identifier or as a quoted string *)
LiteralKey(prop) ==
    /\ prop.type = "ObjectProperty"
    /\ ~prop.computed
    /\ prop.key.type \in {"Identifier", "StringLiteral"}

(* the entries of the properties with a literal key, in source order *)
RECURSIVE LiteralEntries(_, _, _)
LiteralEntries(props, i, acc) ==
    IF i > Len(props) THEN acc
    ELSE IF LiteralKey(props[i])
    THEN LiteralEntries(props, i + 1,
            MapSet(acc,
                   IF props[i].key.type = "Identifier" THEN props[i].key.name
                   ELSE props[i].key.value,
                   extractValue(props[i].value, <<>>)))
    ELSE LiteralEntries(props, i + 1, acc)

(* the statements that bind a name to an object literal for good: no later *)
(* statement declares the name and no import binds it                        *)
ObjectDeclarations ==
    {i \in DOMAIN Body :
        /\ Body[i].type = "VariableDeclaration"
        /\ Len(Body[i].declarations) = 1
        /\ Body[i].declarations[1].init.type = "ObjectExpression"
        /\ \A j \in DOMAIN Body : j > i => DeclaredBy(Body[j]) \cap DeclaredBy(Body[i]) = {}
        /\ DeclaredBy(Body[i]) \cap LocalNames(lastBuild.ast) = {}}

(* C24: an object-literal initializer is bound as the Object holding one   *)
(* entry for each property whose key is a plain identifier or a quoted      *)
(* string, with its recursively computed value; a property with any other   *)
(* key form (computed, numeric, spread, method) adds no entry.               *)
C24_OnlyLiteralKeys ==
    Built
    => \A i \in ObjectDeclarations :
          MapGet(lastBuild.symbols, Body[i].declarations[1].id.name)
            = ObjectValue(LiteralEntries(Body[i].declarations[1].init.properties, 1, <<>>))


(* the names a statement writes into the table, nested declarations included *)
WrittenBy(stmt) ==
    Keys(visit(File(<<stmt>>), [symbols |-> <<>>, pendingImports |-> <<>>]).symbols)

(* the table as it is when the traversal reaches statement i *)
TableBefore(i) ==
    visit(File(SubSeq(Body, 1, i - 1)), [symbols |-> <<>>, pendingImports |-> <<>>]).symbols

(* the literal parts of a template from index i on, each followed by the  *)
(* text its embedded expression resolves to                                 *)
RECURSIVE Interleaved(_, _, _)
Interleaved(init, table, i) ==
    IF i > Len(init.quasis) THEN ""
    ELSE init.quasis[i].value.raw
         \o (IF i <= Len(init.expressions)
             THEN resolveExpression(init.expressions[i], table).resolvedValue
             ELSE "")
         \o Interleaved(init, table, i + 1)

EveryPartResolved(init, table) ==
    \A k \in DOMAIN init.expressions :
        resolveExpression(init.expressions[k], table).isFullyResolved

(* the top-level statements that bind a name to a template with embedded  *)
(* expressions for good                                                     *)
TemplateDeclarations ==
    {i \in DOMAIN Body :
        /\ Body[i].type = "VariableDeclaration"
        /\ Len(Body[i].declarations) = 1
        /\ Body[i].declarations[1].init.type = "TemplateLiteral"
        /\ Len(Body[i].declarations[1].init.expressions) > 0
        /\ \A j \in DOMAIN Body : j > i => WrittenBy(Body[j]) \cap DeclaredBy(Body[i]) = {}
        /\ DeclaredBy(Body[i]) \cap LocalNames(lastBuild.ast) = {}}

(* C25: a template initializer is bound all-or-nothing: as the String of   *)
(* all its parts concatenated when every embedded expression resolves fully *)
(* against the table built so far, as Unresolved otherwise; resolveExpression *)
(* on the same template and table returns the concatenation in both cases,  *)
(* with isFullyResolved false in the second.                                 *)
C25_TemplateAllOrNothing ==
    Built
    => \A i \in TemplateDeclarations :
          LET init == Body[i].declarations[1].init
              table == TableBefore(i)
              bound == MapGet(lastBuild.symbols, Body[i].declarations[1].id.name)
              again == resolveExpression(init, table)
          IN /\ bound = IF EveryPartResolved(init, table)
                        THEN StringValue(Interleaved(init, table, 1))
                        ELSE UnresolvedValue
             /\ again.resolvedValue = Interleaved(init, table, 1)
             /\ again.isFullyResolved = EveryPartResolved(init, table)

(* const a = `p-${b}` with b unbound: a is Unresolved, and resolveExpression *)
(* returns the text "p-" as not fully resolved                               *)
C25_Witness ==
    /\ Built
    /\ \E i \in TemplateDeclarations :
          LET again == resolveExpression(Body[i].declarations[1].init, TableBefore(i))
          IN /\ MapGet(lastBuild.symbols, Body[i].declarations[1].id.name) = UnresolvedValue
             /\ ~again.isFullyResolved
             /\ again.resolvedValue # ""


(* the last statement that writes the name *)
LastWriter(name) ==
    CHOOSE i \in DOMAIN Body :
        /\ name \in WrittenBy(Body[i])
        /\ \A j \in DOMAIN Body : j > i => name \notin WrittenBy(Body[j])

(* the statement is a top-level declaration of the name alone *)
DeclaresAlone(stmt, name) ==
    /\ stmt.type = "VariableDeclaration"
    /\ Len(stmt.declarations) = 1
    /\ stmt.declarations[1].id.name = name

(* the last resolveImport call made for the local name *)
LastImportOf(name) ==
    lastBuild.calls[CHOOSE i \in DOMAIN lastBuild.calls :
                       /\ lastBuild.calls[i].localName = name
                       /\ \A j \in DOMAIN lastBuild.calls :
                             j > i => lastBuild.calls[j].localName # name]

(* C26: each name has exactly one entry, holding the last write in         *)
(* processing order: an imported name holds what its import yielded,        *)
(* wherever a same-named declaration stands in the source; any other name    *)
(* holds the value of its last declaration, also when that is Unresolved.    *)
C26_LastWriteWins ==
    Built
    => /\ \A i, j \in DOMAIN lastBuild.symbols :
             lastBuild.symbols[i].key = lastBuild.symbols[j].key => i = j
       /\ \A name \in Keys(lastBuild.symbols) :
             IF name \in LocalNames(lastBuild.ast)
             THEN MapGet(lastBuild.symbols, name)
                    = IF NoFileContext(lastBuild.options) THEN UnresolvedValue
                      ELSE IF LastImportOf(name).value = undefined THEN UnresolvedValue
                      ELSE LastImportOf(name).value
             ELSE DeclaresAlone(Body[LastWriter(name)], name)
                  => MapGet(lastBuild.symbols, name)
                       = extractValue(Body[LastWriter(name)].declarations[1].init,
                                      TableBefore(LastWriter(name)))

(* import { a } from "./tokens"; const a = "x": a holds the imported "z" *)
C26_Witness ==
    /\ Built
    /\ ~NoFileContext(lastBuild.options)
    /\ Len(Body) = 2
    /\ Body[1].type = "ImportDeclaration"
    /\ Body[2] = Declare("a", StringLiteral("x"))
    /\ MapGet(lastBuild.symbols, "a") = StringValue("z")


(* the table of a file built from the file alone, no other file within reach *)
AloneTable(ast) == buildSymbolTable(ast, Options(<<>>, TRUE), <<>>, NoFiles).symbols

(* C27: every table in the import cache was built without following       *)
(* imports: each name the cached file itself imports is Unresolved in it,    *)
(* and every value an analysis obtains through an import is what the target  *)
(* file alone yields, so none comes from a file two or more hops away.       *)
C27_CacheOneLevelDeep ==
    /\ \A i \in DOMAIN importCache :
          /\ files[importCache[i].key].kind = "source"
          /\ \A name \in LocalNames(files[importCache[i].key].ast) :
                MapGet(importCache[i].value, name) = UnresolvedValue
    /\ Built
       => \A k \in DOMAIN lastBuild.calls :
             lastBuild.calls[k].value # undefined
             => lastBuild.calls[k].value
                  = getExportedValue(AloneTable(files[lastBuild.calls[k].resolvedPath].ast),
                                     lastBuild.calls[k].importedName)

(* tokens.ts is ModuleC, which imports a from tokens.jsx, a module that    *)
(* exports a: the cached table of tokens.ts holds a as Unresolved            *)
C27_Witness ==
    /\ files[<<"project", "tokens.ts">>] = Source(ModuleC)
    /\ files[<<"project", "tokens.jsx">>].kind = "source"
    /\ MapHas(importCache, <<"project", "tokens.ts">>)
    /\ MapGet(MapGet(importCache, <<"project", "tokens.ts">>), "a") = UnresolvedValue
    /\ Built
    /\ \E k \in DOMAIN lastBuild.calls : lastBuild.calls[k].value # undefined


(* the names the top-level export statements of a file declare *)
Exports(ast) ==
    UNION {DeclaredBy(ast.program.body[i]) :
             i \in {i \in DOMAIN ast.program.body :
                      ast.program.body[i].type = "ExportNamedDeclaration"}}

(* C28: resolveImport yields a value for a name only when the target file  *)
(* exports a binding of that name, and a namespace import holds exported     *)
(* bindings only: a declaration that is not exported is never obtained.      *)
C28_OnlyExported ==
    Built
    => \A k \in DOMAIN lastBuild.calls :
          LET call == lastBuild.calls[k]
              exported == Exports(files[call.resolvedPath].ast)
          IN (call.value # undefined /\ call.value # UnresolvedValue)
             => IF call.importedName = "*"
                THEN Keys(call.value.properties) \subseteq exported
                ELSE call.importedName \in exported


(* C29: the bindings of names no import statement introduces do not depend *)
(* on import availability: whatever the files, the import cache,             *)
(* currentFilePath and followImports are, they are the bindings the tree     *)
(* gets when it is analysed alone.                                           *)
C29_LocalBindingsIndependent ==
    Built
    => \A name \in (Keys(lastBuild.symbols) \cup Keys(AloneTable(lastBuild.ast)))
                     \ LocalNames(lastBuild.ast) :
          MapGet(lastBuild.symbols, name) = MapGet(AloneTable(lastBuild.ast), name)

(* a file with an import that could not be resolved is analysed with file *)
(* context and leaves a cached table; its own declaration is bound           *)
C29_Witness ==
    /\ Built
    /\ ~NoFileContext(lastBuild.options)
    /\ \E k \in DOMAIN lastBuild.calls : lastBuild.calls[k].value = undefined
    /\ importCache # <<>>
    /\ Keys(lastBuild.symbols) \ LocalNames(lastBuild.ast) # {}


====
